---- MODULE Spec2Model ----
(***************************************************************************)
(* PM2.5 prediction backend (pm-2-5-be): the time validator, the bounded    *)
(* cache (CacheManager), the result cache (PredictionCache), the snapshot   *)
(* fetcher, the district predictor and the batch orchestrator               *)
(* (predict_all_districts), modelled as state machines.                     *)
(*                                                                         *)
(* Time is in seconds.  A timezone-aware datetime in Asia/Ho_Chi_Minh (a    *)
(* fixed UTC+7 offset, no daylight saving) is represented by its local      *)
(* wall-clock seconds since 1970-01-01 00:00 local; comparing two such      *)
(* values compares the instants.                                            *)
(***************************************************************************)
EXTENDS Integers, Sequences, FiniteSets, TLC

VARIABLES
    now,        \* the wall clock: datetime.now(TZ_VN) / time.time(), local seconds
    vTarget,    \* validator run: the target instant the request was made for
    vReq,       \* validator run: the request fields <<year, month, day, hour, minute>>
    vOut,       \* validator run: what validate_prediction_request returned, or NotCalled
    cache_manager,     \* the CacheManager instance of core/data_fetcher.py
    prediction_cache,  \* the PredictionCache instance of api/routes.py
    subject,    \* cache run: which class the run drives
    cacheRet,   \* cache run: the last operation, its arguments and what it returned
    app_cache_manager, \* the CacheManager instance app.py hands to register_routes
    districts,  \* the district list loaded at start-up (read-only afterwards)
    batch,      \* the predict_all_districts request in progress, or Idle
    lastResp,   \* the response of the request that returned last, the number of
                \* district tasks it dispatched and the order they completed in
    lastStored, \* per request key, the response predict_all_districts stored last
                \* and when (history, read by no operation)
    clears,     \* how many times the cache-clear route has run
    pOut,       \* predictor run: the last call of predict_pm25_for_district,
                \* its arguments and what it returned
    pool,       \* the ThreadPoolExecutor of the batch in progress: worker threads,
                \* submitted futures, work queue, tasks running
    workers,    \* threads inside a cache operation: per thread the operation, its
                \* arguments, its local variables and the statement it is at
    fRun,       \* feature engine run: the frames passed to
                \* create_features_from_3hours, as their callers hold them, and
                \* what the calls returned
    fetchRun,   \* fetcher run: the lookups made so far, the last one (its kind,
                \* its instant, what the provider would answer, what it returned
                \* or raised and the upstream calls it made), and per cache key
                \* the time and the value of the last store (history)
    setLog      \* cache run: the distinct keys passed to set, in order, since the
                \* cache was last empty by construction or by clear; Void once a
                \* key was set twice or more keys than Capacity + 1 were set
                \* (history, read by no operation)

valVars == <<vTarget, vReq, vOut>>
cacheVars == <<cache_manager, prediction_cache, subject, cacheRet, setLog>>
svcVars == <<app_cache_manager, districts, batch, lastResp, lastStored, clears, pOut, pool, workers, fRun, fetchRun>>
vars == <<now, valVars, cacheVars, svcVars>>

\* Python's None where the other values are strings
None == "None"

\* Python's None where the other values are dicts (cached results, responses)
NoneObj == [is_none |-> TRUE]

\* the value of a result variable before the call it belongs to has returned
NotCalled == [called |-> FALSE]

-----------------------------------------------------------------------------
(* Civil calendar: datetime(year, month, day, hour, minute) and strftime.   *)

\* days since 1970-01-01 of the proleptic Gregorian date y-m-d
DaysFromCivil(y, m, d) ==
    LET yy  == IF m <= 2 THEN y - 1 ELSE y
        era == yy \div 400
        yoe == yy - era * 400
        mp  == (m + 9) % 12
        doy == (153 * mp + 2) \div 5 + d - 1
        doe == yoe * 365 + yoe \div 4 - yoe \div 100 + doy
    IN  era * 146097 + doe - 719468

\* the date <<y, m, d>> of a day number; each intermediate of the computation
\* is named once, as the parameter of the step that uses it
CivilFromDays(z) ==
    LET Date(era, yoe, doy, mp, m) ==
            <<yoe + era * 400 + (IF m <= 2 THEN 1 ELSE 0), m,
              doy - (153 * mp + 2) \div 5 + 1>>
        OfMp(era, yoe, doy, mp) ==
            Date(era, yoe, doy, mp, IF mp < 10 THEN mp + 3 ELSE mp - 9)
        OfDoy(era, yoe, doy) == OfMp(era, yoe, doy, (5 * doy + 2) \div 153)
        OfYoe(era, doe, yoe) ==
            OfDoy(era, yoe, doe - (365 * yoe + yoe \div 4 - yoe \div 100))
        OfDoe(era, doe) ==
            OfYoe(era, doe,
                  (doe - doe \div 1460 + doe \div 36524 - doe \div 146096) \div 365)
        OfEra(zz, era) == OfDoe(era, zz - era * 146097)
        OfZ(zz) == OfEra(zz, zz \div 146097)
    IN  OfZ(z + 719468)

SecondsPerMinute == 60
SecondsPerHour == 3600
SecondsPerDay == 86400

\* TZ_VN.localize(datetime(year, month, day, hour, minute))
Localize(year, month, day, hour, minute) ==
    DaysFromCivil(year, month, day) * SecondsPerDay
        + hour * SecondsPerHour + minute * SecondsPerMinute

\* dt.strftime('%Y-%m-%d %H:%M'): the five civil fields, seconds dropped
Strftime(dt) ==
    LET Fields(ymd, sod) ==
            <<ymd[1], ymd[2], ymd[3], sod \div SecondsPerHour,
              (sod % SecondsPerHour) \div SecondsPerMinute>>
    IN  Fields(CivilFromDays(dt \div SecondsPerDay), dt % SecondsPerDay)

\* timedelta(minutes = n), timedelta(hours = n), timedelta(days = n)
Minutes(n) == n * SecondsPerMinute
Hours(n) == n * SecondsPerHour
Days(n) == n * SecondsPerDay

-----------------------------------------------------------------------------
(* Time Validator: validate_prediction_request.                             *)

RecentMinutes == 30
OldestDays == 90

\* RULE 1 with the FUTURE_TIME branch unreachable, as when RULE 2 is tested first
Rule1Shadowed(target_time, t) == FALSE

\* RULE 1: if target_time > now
Rule1(target_time, t) == target_time > t

\* RULE 2 with the boundary instant itself rejected
Rule2Inclusive(target_time, t) == target_time >= t - Minutes(RecentMinutes)

\* RULE 2: safe_time = now - timedelta(minutes=30); if target_time > safe_time
Rule2(target_time, t) == target_time > t - Minutes(RecentMinutes)

\* RULE 3: oldest_allowed = now - timedelta(days=90); if target_time < oldest_allowed
Rule3(target_time, t) == target_time < t - Days(OldestDays)

\* the window descriptor with the prediction hour not shifted
WindowInfoUnshifted(target_time) ==
    [target_time |-> Strftime(target_time),
     prediction_for |-> Strftime(target_time),
     data_from |-> [t2 |-> Strftime(target_time - Hours(2)),
                    t1 |-> Strftime(target_time - Hours(1)),
                    t0 |-> Strftime(target_time)]]

\* the info dict of an accepted request (prediction_time = target_time + 1 h)
WindowInfo(target_time) ==
    [target_time |-> Strftime(target_time),
     prediction_for |-> Strftime(target_time + Hours(1)),
     data_from |-> [t2 |-> Strftime(target_time - Hours(2)),
                    t1 |-> Strftime(target_time - Hours(1)),
                    t0 |-> Strftime(target_time)]]

\* validate_prediction_request(year, month, day, hour, minute) at clock t:
\* the tuple (is_valid, error_code, error_message, info_dict); the message
\* is text derived from the same values as the details and is left out.
validate_prediction_request(t, year, month, day, hour, minute) ==
    LET target_time == Localize(year, month, day, hour, minute)
    IN  IF Rule1(target_time, t)
        THEN [is_valid |-> FALSE, error_code |-> "FUTURE_TIME",
              info |-> [target_time |-> Strftime(target_time),
                        current_time |-> Strftime(t),
                        difference_minutes |-> (target_time - t) \div SecondsPerMinute]]
        ELSE IF Rule2(target_time, t)
        THEN [is_valid |-> FALSE, error_code |-> "TIME_TOO_RECENT",
              info |-> [target_time |-> Strftime(target_time),
                        current_time |-> Strftime(t),
                        safe_time |-> Strftime(t - Minutes(RecentMinutes)),
                        wait_minutes |->
                            RecentMinutes - (t - target_time) \div SecondsPerMinute]]
        ELSE IF Rule3(target_time, t)
        THEN [is_valid |-> FALSE, error_code |-> "TIME_TOO_OLD",
              info |-> [target_time |-> Strftime(target_time),
                        oldest_allowed |-> Strftime(t - Days(OldestDays)),
                        days_difference |-> (t - target_time) \div SecondsPerDay]]
        ELSE [is_valid |-> TRUE, error_code |-> None,
              info |-> WindowInfo(target_time)]

-----------------------------------------------------------------------------
(* Python dicts.  A dict is the sequence of its <<key, value>> items in     *)
(* insertion order: assigning to a present key keeps its place, a new key   *)
(* goes last, pop removes the item.                                         *)

EmptyDict == <<>>

DictKeys(d) == {d[i][1] : i \in 1..Len(d)}

DictHas(d, k) == k \in DictKeys(d)

\* d.get(k, default)
DictGet(d, k, default) ==
    IF DictHas(d, k) THEN d[CHOOSE i \in 1..Len(d) : d[i][1] = k][2] ELSE default

\* d.setdefault(k, v): a present key keeps the value it has
DictSetDefault(d, k, v) ==
    IF DictHas(d, k) THEN d ELSE Append(d, <<k, v>>)

\* d[k] = v
DictPut(d, k, v) ==
    IF DictHas(d, k)
    THEN [i \in 1..Len(d) |-> IF d[i][1] = k THEN <<k, v>> ELSE d[i]]
    ELSE Append(d, <<k, v>>)

\* d.pop(k, None)
DictPop(d, k) ==
    LET keep(item) == item[1] # k IN SelectSeq(d, keep)

-----------------------------------------------------------------------------
(* Bounded Cache: class CacheManager.                                       *)

UtcOffsetHours == 7

\* time.time(): seconds since the epoch, UTC, at local clock t
TimeTime(t) == t - Hours(UtcOffsetHours)

\* CacheManager(max_size)
CacheManagerNew(max_size) ==
    [cache |-> EmptyDict, timestamps |-> EmptyDict, access_count |-> EmptyDict,
     max_size |-> max_size]

\* CacheManager._remove(key)
CM_remove(c, key) ==
    [c EXCEPT !.cache = DictPop(@, key),
              !.timestamps = DictPop(@, key),
              !.access_count = DictPop(@, key)]

\* a hit that also restarts the entry's TTL
CM_hit_refreshing(c, key, t) ==
    [c EXCEPT !.access_count = DictPut(@, key, DictGet(@, key, 0) + 1),
              !.timestamps = DictPut(@, key, TimeTime(t))]

\* the hit branch of get: self.access_count[key] = self.access_count.get(key, 0) + 1
CM_hit(c, key, t) ==
    [c EXCEPT !.access_count = DictPut(@, key, DictGet(@, key, 0) + 1)]

\* CacheManager.get(key, ttl) at clock t: the cache afterwards and the value returned
CM_get(c, key, ttl, t) ==
    IF DictHas(c.cache, key)
    THEN LET timestamp == DictGet(c.timestamps, key, 0)
         IN  IF TimeTime(t) - timestamp < ttl
             THEN [c |-> CM_hit(c, key, t), ret |-> DictGet(c.cache, key, NoneObj)]
             ELSE [c |-> CM_remove(c, key), ret |-> NoneObj]
    ELSE [c |-> c, ret |-> NoneObj]

\* the eviction key with the oldest entry taken whatever its access count
LruKeyOldest(c) ==
    LET ts == c.timestamps
        i == CHOOSE a \in 1..Len(ts) :
                 \A b \in 1..Len(ts) : (b < a => ts[b][2] > ts[a][2])
                                        /\ (b > a => ts[b][2] >= ts[a][2])
    IN  ts[i][1]

\* min(self.timestamps.items(), key=lambda x: (self.access_count.get(x[0], 0), x[1]))[0]:
\* the first item, in the dict's order, whose (access count, timestamp) pair is least
LruKey(c) ==
    LET ts == c.timestamps
        cnt(i) == DictGet(c.access_count, ts[i][1], 0)
        less(a, b) == cnt(a) < cnt(b) \/ (cnt(a) = cnt(b) /\ ts[a][2] < ts[b][2])
        i == CHOOSE a \in 1..Len(ts) :
                 \A b \in 1..Len(ts) : (b < a => less(a, b)) /\ (b > a => ~less(b, a))
    IN  ts[i][1]

\* an eviction that removes nothing
CM_evict_none(c) == c

\* CacheManager._evict_lru()
CM_evict_lru(c) ==
    IF Len(c.cache) = 0 THEN c ELSE CM_remove(c, LruKey(c))

\* a set that keeps the access count of a key it overwrites
CM_set_keeping_count(c, key, value, t) ==
    LET c1 == IF Len(c.cache) >= c.max_size THEN CM_evict_lru(c) ELSE c
    IN  [c1 EXCEPT !.cache = DictPut(@, key, value),
                   !.timestamps = DictPut(@, key, TimeTime(t)),
                   !.access_count = DictPut(@, key, DictGet(@, key, 0))]

\* CacheManager.set(key, value) at clock t
CM_set(c, key, value, t) ==
    LET c1 == IF Len(c.cache) >= c.max_size THEN CM_evict_lru(c) ELSE c
    IN  [c1 EXCEPT !.cache = DictPut(@, key, value),
                   !.timestamps = DictPut(@, key, TimeTime(t)),
                   !.access_count = DictPut(@, key, 0)]

\* a clear that forgets the bookkeeping of the first entry only
CM_clear_partial(c) ==
    [c |-> [c EXCEPT !.cache = IF Len(@) = 0 THEN @ ELSE Tail(@),
                     !.timestamps = IF Len(@) = 0 THEN @ ELSE Tail(@),
                     !.access_count = IF Len(@) = 0 THEN @ ELSE Tail(@)],
     ret |-> NoneObj, logged |-> Len(c.cache)]

\* CacheManager.clear(): the cache afterwards, the value returned (the method has
\* no return statement) and the count it logs
CM_clear(c) ==
    [c |-> [c EXCEPT !.cache = EmptyDict, !.timestamps = EmptyDict,
                     !.access_count = EmptyDict],
     ret |-> NoneObj, logged |-> Len(c.cache)]

\* CacheManager.stats()["size"]
CM_size(c) == Len(c.cache)

-----------------------------------------------------------------------------
(* Result Cache: class PredictionCache.                                     *)

CACHE_TTL_PREDICTION == 1800

\* PredictionCache(ttl)
PredictionCacheNew(ttl) ==
    [cache |-> EmptyDict, timestamps |-> EmptyDict, ttl |-> ttl]

\* PredictionCache._generate_key: f"pred_{year}_{month}_{day}_{hour}_{minute}"
PC_generate_key(year, month, day, hour, minute) ==
    <<"pred", year, month, day, hour, minute>>

\* a get that expires an entry at half the TTL
PC_get_half_ttl(p, year, month, day, hour, minute, t) ==
    LET key == PC_generate_key(year, month, day, hour, minute)
    IN  IF DictHas(p.cache, key)
        THEN LET timestamp == DictGet(p.timestamps, key, 0)
             IN  IF 2 * (TimeTime(t) - timestamp) < p.ttl
                 THEN [c |-> p, ret |-> DictGet(p.cache, key, NoneObj)]
                 ELSE [c |-> [p EXCEPT !.cache = DictPop(@, key),
                                       !.timestamps = DictPop(@, key)],
                       ret |-> NoneObj]
        ELSE [c |-> p, ret |-> NoneObj]

\* a get that returns an entry whatever its age
PC_get_stale(p, year, month, day, hour, minute, t) ==
    [c |-> p,
     ret |-> DictGet(p.cache, PC_generate_key(year, month, day, hour, minute), NoneObj)]

\* PredictionCache.get(year, month, day, hour, minute) at clock t
PC_get(p, year, month, day, hour, minute, t) ==
    LET key == PC_generate_key(year, month, day, hour, minute)
    IN  IF DictHas(p.cache, key)
        THEN LET timestamp == DictGet(p.timestamps, key, 0)
             IN  IF TimeTime(t) - timestamp < p.ttl
                 THEN [c |-> p, ret |-> DictGet(p.cache, key, NoneObj)]
                 ELSE [c |-> [p EXCEPT !.cache = DictPop(@, key),
                                       !.timestamps = DictPop(@, key)],
                       ret |-> NoneObj]
        ELSE [c |-> p, ret |-> NoneObj]

\* a set that leaves the timestamp of an entry it overwrites as it was
PC_set_keeping_stamp(p, year, month, day, hour, minute, result, t) ==
    LET key == PC_generate_key(year, month, day, hour, minute)
    IN  [p EXCEPT !.cache = DictPut(@, key, result),
                  !.timestamps = IF DictHas(@, key) THEN @
                                 ELSE DictPut(@, key, TimeTime(t))]

\* PredictionCache.set(year, month, day, hour, minute, result) at clock t
PC_set(p, year, month, day, hour, minute, result, t) ==
    LET key == PC_generate_key(year, month, day, hour, minute)
    IN  [p EXCEPT !.cache = DictPut(@, key, result),
                  !.timestamps = DictPut(@, key, TimeTime(t))]

\* PredictionCache.clear(): no return statement; the count is logged
PC_clear(p) ==
    [c |-> [p EXCEPT !.cache = EmptyDict, !.timestamps = EmptyDict],
     ret |-> NoneObj, logged |-> Len(p.cache)]

\* PredictionCache.stats()["size"]
PC_size(p) == Len(p.cache)

-----------------------------------------------------------------------------
(* Snapshot Fetcher: core/data_fetcher.py.  A cache key is the md5 of the   *)
(* printed arguments; it is modelled by the arguments themselves, as        *)
(* <<source kind, time bucket, coordinates>>.  What the upstream provider   *)
(* answers to one call is the argument up: [ok |-> TRUE, value |-> v] (for  *)
(* the air-quality provider, list |-> the records) or [ok |-> FALSE, exc    *)
(* |-> exception type].                                                     *)

CACHE_TTL_WEATHER == 3600
CACHE_TTL_AIR == 1800

\* a forecast TTL of half the air-quality TTL
ForecastTtlHalved == CACHE_TTL_AIR \div 2

ForecastTtl == 1800

\* the outcome of a fetch: the cache afterwards, the value returned or the
\* exception raised, and the number of calls made to the provider
Returns(c, value, calls) ==
    [c |-> c, raised |-> FALSE, ret |-> value, exc |-> None, upstream |-> calls]
Raises(c, exc, calls) ==
    [c |-> c, raised |-> TRUE, ret |-> NoneObj, exc |-> exc, upstream |-> calls]

\* statement sequencing: the value of the first statement is computed once
\* and the rest of the body runs on it
Then(value, Rest(_)) == CHOOSE out \in {Rest(v) : v \in {value}} : TRUE

\* a lookup that stores the failure of the provider call under the key
LookupStoringFailure(c, key, ttl, up, t) ==
    Then(CM_get(c, key, ttl, t), LAMBDA r :
        IF r.ret # NoneObj
        THEN Returns(r.c, r.ret, 0)
        ELSE IF up.ok
             THEN Returns(CM_set(r.c, key, up.value, t), up.value, 1)
             ELSE Raises(CM_set(r.c, key, up, t), up.exc, 1))

\* a read-through lookup: cache get, else the provider call and cache set
Lookup(c, key, ttl, up, t) ==
    Then(CM_get(c, key, ttl, t), LAMBDA r :
        IF r.ret # NoneObj
        THEN Returns(r.c, r.ret, 0)
        ELSE IF up.ok
             THEN Returns(CM_set(r.c, key, up.value, t), up.value, 1)
             ELSE Raises(r.c, up.exc, 1))

Abs(x) == IF x < 0 THEN -x ELSE x

\* a choice of the record that comes first in the list
FirstRecord(list, timestamp_utc) == list[1]

\* min(data["list"], key=lambda x: abs(x["dt"] - timestamp_utc)): the first
\* of the records at the least distance
RECURSIVE Closest(_, _)
Closest(list, timestamp_utc) ==
    IF Len(list) = 1 THEN list[1]
    ELSE LET Nearer(rest) ==
                 IF Abs(rest.dt - timestamp_utc) < Abs(list[1].dt - timestamp_utc)
                 THEN rest ELSE list[1]
         IN  Nearer(Closest(Tail(list), timestamp_utc))

\* the body of fetch_air_quality_at_time after the request: up is what the
\* air-quality provider answers, [ok |-> TRUE, list |-> the records of
\* data["list"]] or [ok |-> FALSE, exc |-> exception type]
AirResult(up, timestamp_utc) ==
    IF ~up.ok THEN up
    ELSE IF up.list = <<>> THEN [ok |-> FALSE, exc |-> "ValueError"]
    ELSE [ok |-> TRUE, value |-> Closest(up.list, timestamp_utc).components]

\* fetch_air_quality_at_time(timestamp_utc, api_key, lat, lon)
fetch_air_quality_at_time(c, timestamp_utc, coords, up, t) ==
    Lookup(c, <<"air", <<timestamp_utc>>, coords>>, CACHE_TTL_AIR,
           AirResult(up, timestamp_utc), t)

\* What a weather provider answers: [ok |-> TRUE, columns |-> the keys of
\* data["hourly"], hourly |-> the rows of the series], a row being [time |->
\* the printed time, read as UTC, values |-> the measurements of the hour],
\* or [ok |-> FALSE, exc |-> exception type].

\* dt.tz_localize("UTC").dt.tz_convert(TZ_VN): the local time of a row
tz_convert(time) == time + Hours(UtcOffsetHours)

\* target_time_vn.replace(minute=0, second=0, microsecond=0)
target_hour(target_time_vn) == target_time_vn - (target_time_vn % SecondsPerHour)

\* df[df["time"] == target_hour]
matched(hourly, hour) == SelectSeq(hourly, LAMBDA row : tz_convert(row.time) = hour)

\* abs((df["time"] - target_hour).dt.total_seconds()) of row i
time_diff(hourly, hour, i) == Abs(tz_convert(hourly[i].time) - hour)

\* a choice of the first row of the series
idxfirst(hourly, hour) == 1

\* df["time_diff"].idxmin(): the first of the rows at the least distance
idxmin(hourly, hour) ==
    CHOOSE i \in 1..Len(hourly) :
        \A j \in 1..Len(hourly) :
            \/ time_diff(hourly, hour, i) < time_diff(hourly, hour, j)
            \/ time_diff(hourly, hour, i) = time_diff(hourly, hour, j) /\ i <= j

\* the row the result is read from: matched.iloc[0], or else the closest
SelectedRow(hourly, hour) ==
    IF matched(hourly, hour) = <<>>
    THEN hourly[idxmin(hourly, hour)]
    ELSE matched(hourly, hour)[1]

\* the columns fetch_weather_archive reads with row[...]
ArchiveColumns == {"temperature_2m", "relative_humidity_2m", "precipitation",
                   "pressure_msl", "windspeed_10m", "winddirection_10m",
                   "shortwave_radiation"}

\* the columns fetch_weather_forecast reads with row[...]; the two wind
\* columns are read with row.get under either of their names, 0 by default
ForecastColumns == {"temperature_2m", "relative_humidity_2m", "precipitation",
                    "pressure_msl", "shortwave_radiation"}

WindColumns(columns) ==
    /\ {"wind_speed_10m", "windspeed_10m"} \cap columns # {}
    /\ {"wind_direction_10m", "winddirection_10m"} \cap columns # {}

\* the measurements of a row with 0 for the wind columns the payload lacks
WindDefault(values) == [source |-> "weather", wind |-> 0, of |-> values]

\* the body of the two weather fetches after the request: an empty
\* data["hourly"] raises ValueError, a missing column KeyError, and idxmin
\* of a series without rows ValueError
WeatherResult(up, target_time_vn, required, wind_optional) ==
    IF ~up.ok THEN up
    ELSE IF up.columns = {} THEN [ok |-> FALSE, exc |-> "ValueError"]
    ELSE IF "time" \notin up.columns THEN [ok |-> FALSE, exc |-> "KeyError"]
    ELSE IF up.hourly = <<>> THEN [ok |-> FALSE, exc |-> "ValueError"]
    ELSE IF ~(required \subseteq up.columns) THEN [ok |-> FALSE, exc |-> "KeyError"]
    ELSE LET row == SelectedRow(up.hourly, target_hour(target_time_vn))
         IN  [ok |-> TRUE,
              value |-> IF wind_optional /\ ~WindColumns(up.columns)
                        THEN WindDefault(row.values)
                        ELSE row.values]

\* params of the archive request: the local date of the target, twice, and
\* the timezone the provider is to print the hours in
ArchiveParams(target_time_vn) ==
    LET f == Strftime(target_time_vn)
    IN  [start_date |-> <<f[1], f[2], f[3]>>, end_date |-> <<f[1], f[2], f[3]>>,
         timezone |-> "UTC"]

\* fetch_weather_archive(target_time_vn, lat, lon)
fetch_weather_archive(c, target_time_vn, coords, up, t) ==
    LET f == Strftime(target_time_vn)
    IN  Lookup(c, <<"weather_archive", <<f[1], f[2], f[3], f[4]>>, coords>>,
               CACHE_TTL_WEATHER,
               WeatherResult(up, target_time_vn, ArchiveColumns, FALSE), t)

\* fetch_weather_forecast(target_time_vn, lat, lon)
fetch_weather_forecast(c, target_time_vn, coords, up, t) ==
    LET f == Strftime(target_time_vn)
    IN  Lookup(c, <<"weather_forecast", <<f[1], f[2], f[3], f[4]>>, coords>>,
               ForecastTtl,
               WeatherResult(up, target_time_vn, ForecastColumns, TRUE), t)

\* a choice of the provider by the instant: the forecast for an instant that
\* is not in the past
fetch_weather_by_instant(c, target_time_vn, coords, up, t) ==
    IF target_time_vn >= t
    THEN fetch_weather_forecast(c, target_time_vn, coords, up, t)
    ELSE fetch_weather_archive(c, target_time_vn, coords, up, t)

\* fetch_weather_at_time(target_time_vn, lat, lon): by calendar date
fetch_weather_at_time(c, target_time_vn, coords, up, t) ==
    IF target_time_vn \div SecondsPerDay >= t \div SecondsPerDay
    THEN fetch_weather_forecast(c, target_time_vn, coords, up, t)
    ELSE fetch_weather_archive(c, target_time_vn, coords, up, t)

\* get_15_features_at_time(target_time_vn, api_key, lat, lon)
get_15_features_at_time(c, target_time_vn, coords, upAir, upWeather, t) ==
    Then(fetch_air_quality_at_time(c, TimeTime(target_time_vn), coords, upAir, t),
         LAMBDA air :
        IF air.raised THEN air
        ELSE Then(fetch_weather_at_time(air.c, target_time_vn, coords, upWeather, t),
                  LAMBDA weather :
                 IF weather.raised
                 THEN Raises(weather.c, weather.exc, air.upstream + weather.upstream)
                 ELSE Returns(weather.c,
                              [datetime |-> target_time_vn, air |-> air.ret,
                               weather |-> weather.ret],
                              air.upstream + weather.upstream)))

-----------------------------------------------------------------------------
(* Feature Engine: create_features_from_3hours.  A float is a record: NaN,  *)
(* or the value (n / d) * f(2 * pi * a[1] / a[2]) with n / d in lowest      *)
(* terms, where f is 1 ("rat"), the sine ("sin") or the cosine ("cos"), or  *)
(* the square root of n / d ("sqrt").  A frame is the sequence of its rows; *)
(* a row is a record of its index value, datetime, and its columns.         *)

NaN == [k |-> "nan", n |-> 0, d |-> 1, a |-> <<0, 1>>]

IsNaN(x) == x.k = "nan"

RECURSIVE Gcd(_, _)
Gcd(x, y) == IF y = 0 THEN x ELSE Gcd(y, x % y)

\* the float n / d, d > 0
Ratio(n, d) ==
    LET Lowest(g) == [k |-> "rat", n |-> n \div g, d |-> d \div g, a |-> <<0, 1>>]
    IN  Lowest(Gcd(Abs(n), d))

\* the float of an integer
Float(n) == Ratio(n, 1)

\* x + y, x - y, x * y of floats: NaN if either is NaN
FAdd(x, y) ==
    IF IsNaN(x) \/ IsNaN(y) THEN NaN ELSE Ratio(x.n * y.d + y.n * x.d, x.d * y.d)

FSub(x, y) ==
    IF IsNaN(x) \/ IsNaN(y) THEN NaN ELSE Ratio(x.n * y.d - y.n * x.d, x.d * y.d)

FMul(x, y) ==
    IF IsNaN(x) \/ IsNaN(y) THEN NaN ELSE Ratio(x.n * y.n, x.d * y.d)

\* x / count for a positive count
FDivInt(x, count) == IF IsNaN(x) THEN NaN ELSE Ratio(x.n, x.d * count)

FLess(x, y) == x.n * y.d < y.n * x.d

\* np.sqrt of a float that is not negative
FSqrt(x) == IF IsNaN(x) THEN NaN ELSE [x EXCEPT !.k = "sqrt"]

\* np.sin(2 * np.pi * i / period), np.cos(2 * np.pi * i / period)
SinTurn(i, period) == [k |-> "sin", n |-> 1, d |-> 1, a |-> <<i, period>>]

CosTurn(i, period) == [k |-> "cos", n |-> 1, d |-> 1, a |-> <<i, period>>]

\* speed * np.cos(np.deg2rad(degrees)), speed * np.sin(np.deg2rad(degrees))
MulCosDeg(speed, degrees) ==
    IF IsNaN(speed) \/ IsNaN(degrees) THEN NaN
    ELSE [k |-> "cos", n |-> speed.n, d |-> speed.d, a |-> <<degrees.n, degrees.d * 360>>]

MulSinDeg(speed, degrees) ==
    IF IsNaN(speed) \/ IsNaN(degrees) THEN NaN
    ELSE [k |-> "sin", n |-> speed.n, d |-> speed.d, a |-> <<degrees.n, degrees.d * 360>>]

RECURSIVE FSum(_)
FSum(xs) == IF xs = <<>> THEN Float(0) ELSE FAdd(Head(xs), FSum(Tail(xs)))

RECURSIVE FMin(_)
FMin(xs) ==
    IF Len(xs) = 1 THEN Head(xs)
    ELSE LET Least(rest) == IF FLess(rest, Head(xs)) THEN rest ELSE Head(xs)
         IN  Least(FMin(Tail(xs)))

\* the columns of a snapshot: 8 of air quality and 7 of weather
AirColumns == {"co", "no", "no2", "o3", "so2", "pm2_5", "pm10", "nh3"}

WeatherColumns == {"temperature_2m", "relative_humidity_2m", "precipitation",
                   "pressure_msl", "windspeed_10m", "winddirection_10m",
                   "shortwave_radiation"}

original_cols == <<"temperature_2m", "relative_humidity_2m", "precipitation",
                   "pressure_msl", "windspeed_10m", "shortwave_radiation",
                   "co", "no", "no2", "o3", "so2", "pm10", "nh3">>

\* the columns of df_features in the order the code assigns them
FeatureColumns ==
    <<"pm2_5_lag_1", "pm2_5_lag_2", "so2_lag_1", "co_lag_1", "radiation_lag_1",
      "pm2_5_roll_avg_3hr", "pm2_5_roll_std_3hr", "temp_roll_avg_3hr",
      "humid_roll_avg_3hr", "so2_roll_avg_3hr", "wind_roll_avg_3hr",
      "wind_roll_min_3hr", "co_roll_avg_3hr", "precip_roll_sum_3hr",
      "pm2_5_diff_1hr", "temp_diff_1hr", "humid_diff_1hr">>
    \o original_cols \o
    <<"is_rainy_season", "hour_sin", "hour_cos", "month_sin", "month_cos",
      "day_of_week_sin", "day_of_week_cos", "temp_humidity", "wind_U", "wind_V">>

\* DataFrame.sort_index(): rows by ascending index, equal index values in
\* the order they had
RECURSIVE SortIndex(_)
SortIndex(df) ==
    IF df = <<>> THEN <<>>
    ELSE LET last == df[Len(df)]
             Place(sorted) ==
                 LET before(row) == row.datetime <= last.datetime
                     after(row) == row.datetime > last.datetime
                 IN  SelectSeq(sorted, before) \o <<last>> \o SelectSeq(sorted, after)
         IN  Place(SortIndex(SubSeq(df, 1, Len(df) - 1)))

\* a sort that orders the caller's frame itself
sort_index_inplace(df_3hours) ==
    [arg |-> SortIndex(df_3hours), out |-> SortIndex(df_3hours)]

\* df_3hours.sort_index().copy(): the frame the caller passed is left as it
\* is and the sorted rows are a new frame
sort_index_copy(df_3hours) == [arg |-> df_3hours, out |-> SortIndex(df_3hours)]

\* a lag that takes the row before whatever the number of periods
ShiftOne(df, col, periods, i) == IF i - 1 >= 1 THEN df[i - 1][col] ELSE NaN

\* df[col].shift(periods) at row i
Shift(df, col, periods, i) == IF i - periods >= 1 THEN df[i - periods][col] ELSE NaN

\* df[col].diff(1) at row i
Diff(df, col, i) == FSub(df[i][col], Shift(df, col, 1, i))

\* the values df[col].rolling(window=3, min_periods=1) aggregates at row i:
\* those of the rows i-2..i that exist and are not NaN
Window(df, col, i) ==
    LET first == IF i - 2 >= 1 THEN i - 2 ELSE 1
        defined(x) == ~IsNaN(x)
    IN  SelectSeq([j \in 1..(i - first + 1) |-> df[first + j - 1][col]], defined)

RollingMean(df, col, i) ==
    LET Of(xs) == IF Len(xs) < 1 THEN NaN ELSE FDivInt(FSum(xs), Len(xs))
    IN  Of(Window(df, col, i))

RollingSum(df, col, i) ==
    LET Of(xs) == IF Len(xs) < 1 THEN NaN ELSE FSum(xs)
    IN  Of(Window(df, col, i))

RollingMin(df, col, i) ==
    LET Of(xs) == IF Len(xs) < 1 THEN NaN ELSE FMin(xs)
    IN  Of(Window(df, col, i))

\* the sample standard deviation (ddof = 1): NaN for fewer than 2 values
RollingStd(df, col, i) ==
    LET Of(xs) ==
            IF Len(xs) < 2 THEN NaN
            ELSE LET squares == [j \in 1..Len(xs) |-> FMul(xs[j], xs[j])]
                     Var(sum, sumsq) ==
                         FDivInt(FSub(FMul(Float(Len(xs)), sumsq), FMul(sum, sum)),
                                 Len(xs) * (Len(xs) - 1))
                 IN  FSqrt(Var(FSum(xs), FSum(squares)))
    IN  Of(Window(df, col, i))

\* index.hour, index.month, index.dayofweek (Monday is 0) of a local time
HourOf(dt) == (dt % SecondsPerDay) \div SecondsPerHour

MonthOf(dt) == CivilFromDays(dt \div SecondsPerDay)[2]

DayOfWeek(dt) == ((dt \div SecondsPerDay) + 3) % 7

rainy_season_months == {5, 6, 7, 8, 9, 10}

\* row i of df_features before dropna
FeatureRow(df, i) ==
    [datetime |-> df[i].datetime,
     pm2_5_lag_1 |-> Shift(df, "pm2_5", 1, i),
     pm2_5_lag_2 |-> Shift(df, "pm2_5", 2, i),
     so2_lag_1 |-> Shift(df, "so2", 1, i),
     co_lag_1 |-> Shift(df, "co", 1, i),
     radiation_lag_1 |-> Shift(df, "shortwave_radiation", 1, i),
     pm2_5_roll_avg_3hr |-> RollingMean(df, "pm2_5", i),
     pm2_5_roll_std_3hr |-> RollingStd(df, "pm2_5", i),
     temp_roll_avg_3hr |-> RollingMean(df, "temperature_2m", i),
     humid_roll_avg_3hr |-> RollingMean(df, "relative_humidity_2m", i),
     so2_roll_avg_3hr |-> RollingMean(df, "so2", i),
     wind_roll_avg_3hr |-> RollingMean(df, "windspeed_10m", i),
     wind_roll_min_3hr |-> RollingMin(df, "windspeed_10m", i),
     co_roll_avg_3hr |-> RollingMean(df, "co", i),
     precip_roll_sum_3hr |-> RollingSum(df, "precipitation", i),
     pm2_5_diff_1hr |-> Diff(df, "pm2_5", i),
     temp_diff_1hr |-> Diff(df, "temperature_2m", i),
     humid_diff_1hr |-> Diff(df, "relative_humidity_2m", i),
     temperature_2m |-> df[i].temperature_2m,
     relative_humidity_2m |-> df[i].relative_humidity_2m,
     precipitation |-> df[i].precipitation,
     pressure_msl |-> df[i].pressure_msl,
     windspeed_10m |-> df[i].windspeed_10m,
     shortwave_radiation |-> df[i].shortwave_radiation,
     co |-> df[i].co, no |-> df[i].no, no2 |-> df[i].no2, o3 |-> df[i].o3,
     so2 |-> df[i].so2, pm10 |-> df[i].pm10, nh3 |-> df[i].nh3,
     is_rainy_season |->
         Float(IF MonthOf(df[i].datetime) \in rainy_season_months THEN 1 ELSE 0),
     hour_sin |-> SinTurn(HourOf(df[i].datetime), 24),
     hour_cos |-> CosTurn(HourOf(df[i].datetime), 24),
     month_sin |-> SinTurn(MonthOf(df[i].datetime), 12),
     month_cos |-> CosTurn(MonthOf(df[i].datetime), 12),
     day_of_week_sin |-> SinTurn(DayOfWeek(df[i].datetime), 7),
     day_of_week_cos |-> CosTurn(DayOfWeek(df[i].datetime), 7),
     temp_humidity |-> FMul(df[i].temperature_2m, df[i].relative_humidity_2m),
     wind_U |-> MulCosDeg(df[i].windspeed_10m, df[i].winddirection_10m),
     wind_V |-> MulSinDeg(df[i].windspeed_10m, df[i].winddirection_10m)]

\* a dropna that keeps every row
DropNone(rows) == rows

\* df_features.dropna(): the rows with no NaN in any column
DropNa(rows) ==
    LET complete(row) == \A j \in 1..Len(FeatureColumns) : ~IsNaN(row[FeatureColumns[j]])
    IN  SelectSeq(rows, complete)

\* df_features.tail(1)
Tail1(rows) == IF rows = <<>> THEN <<>> ELSE <<rows[Len(rows)]>>

\* what a call of the engine leaves: the frame the caller passed, as it is
\* after the call, and the frame returned or the exception raised
FReturns(arg, rows) == [arg |-> arg, raised |-> FALSE, exc |-> None, ret |-> rows]

FRaises(arg, exc) == [arg |-> arg, raised |-> TRUE, exc |-> exc, ret |-> <<>>]

\* create_features_from_3hours from the sort on: sorted.out is df, the local
\* frame, and sorted.arg the frame of the caller
derive_features(sorted) ==
    LET Finish(df_features) ==
            IF df_features = <<>>
            THEN FRaises(sorted.arg,
                         [type |-> "ValueError",
                          message |-> "Insufficient data to create features"])
            ELSE FReturns(sorted.arg, Tail1(df_features))
    IN  Finish(DropNa([i \in 1..Len(sorted.out) |-> FeatureRow(sorted.out, i)]))

\* create_features_from_3hours(df_3hours)
create_features_from_3hours(df_3hours) ==
    IF Len(df_3hours) < 3
    THEN FRaises(df_3hours, [type |-> "ValueError", message |-> "Need 3 hours of data"])
    ELSE derive_features(sort_index_copy(df_3hours))

-----------------------------------------------------------------------------
(* District Predictor: predict_pm25_for_district.  The failure of a run is  *)
(* the argument fail: the stage that raises and the exception type, or      *)
(* NoFailure; pred is what model.predict returns, rounded.                  *)

Stages == <<"air_t2", "weather_t2", "air_t1", "weather_t1", "air_t0", "weather_t0",
            "features", "columns", "scaler", "model">>

NoFailure == [stage |-> "none", exc |-> None]

\* the failures tried: one exception type per stage
Failures ==
    {[stage |-> "air_t2", exc |-> "ConnectionError"],
     [stage |-> "weather_t2", exc |-> "ValueError"],
     [stage |-> "air_t1", exc |-> "HTTPError"],
     [stage |-> "weather_t1", exc |-> "ConnectionError"],
     [stage |-> "air_t0", exc |-> "ValueError"],
     [stage |-> "weather_t0", exc |-> "HTTPError"],
     [stage |-> "features", exc |-> "ValueError"],
     [stage |-> "columns", exc |-> "KeyError"],
     [stage |-> "scaler", exc |-> "ValueError"],
     [stage |-> "model", exc |-> "ValueError"]}

\* what the provider answers to the call made at a stage
Upstream(stage, fail, source) ==
    IF fail.stage = stage
    THEN [ok |-> FALSE, exc |-> fail.exc]
    ELSE [ok |-> TRUE, value |-> [source |-> source]]

\* what a weather provider answers to the call made at a stage for the
\* instant target_time_vn: every column, and one row, of the hour of that
\* instant
WeatherUpstream(stage, fail, target_time_vn) ==
    IF fail.stage = stage
    THEN [ok |-> FALSE, exc |-> fail.exc]
    ELSE [ok |-> TRUE,
          columns |-> ArchiveColumns \cup {"time"},
          hourly |-> <<[time |-> TimeTime(target_hour(target_time_vn)),
                        values |-> [source |-> "weather"]]>>]

\* what the air-quality provider answers to the call made at a stage for
\* the instant target_time_vn: one record, of that instant
AirUpstream(stage, fail, target_time_vn) ==
    IF fail.stage = stage
    THEN [ok |-> FALSE, exc |-> fail.exc]
    ELSE [ok |-> TRUE,
          list |-> <<[dt |-> TimeTime(target_time_vn),
                      components |-> [source |-> "air"]]>>]

\* an except clause that names ValueError only: other exceptions escape
HandlerValueErrorOnly(district, exc) ==
    IF exc = "ValueError"
    THEN [id |-> district.id, name |-> district.name, name_en |-> district.name_en,
          lat |-> district.lat, lon |-> district.lon, status |-> "error",
          error |-> <<exc, "message">>, error_type |-> exc]
    ELSE [id |-> district.id, status |-> "raised", error_type |-> exc]

\* except Exception as e: the error result
Handler(district, exc) ==
    [id |-> district.id, name |-> district.name, name_en |-> district.name_en,
     lat |-> district.lat, lon |-> district.lon, status |-> "error",
     error |-> <<exc, "message">>, error_type |-> exc]

\* the success result (include_raw_data is left at its default, True)
SuccessResult(district, pred, features_t0) ==
    [id |-> district.id, name |-> district.name, name_en |-> district.name_en,
     lat |-> district.lat, lon |-> district.lon, pm25_prediction |-> pred,
     population |-> district.population, area_km2 |-> district.area_km2,
     type |-> district.type, status |-> "success",
     raw_data |-> [timestamp |-> features_t0.datetime,
                   air_quality |-> features_t0.air,
                   weather |-> features_t0.weather]]

\* a t-2 instant taken three hours before the target
time_t2_three_hours(target_time) == target_time - Hours(3)

\* time_t1 = target_time - timedelta(hours=1)
time_t1(target_time) == target_time - Hours(1)

\* time_t2 = target_time - timedelta(hours=2)
time_t2(target_time) == target_time - Hours(2)

\* pd.DataFrame([features_t2, features_t1, features_t0])
\*     .set_index("datetime").sort_index()
df_3hours_of(features_t2, features_t1, features_t0) ==
    SortIndex(<<features_t2, features_t1, features_t0>>)

\* predict_pm25_for_district(district, year, month, day, hour, minute, ...):
\* the fetcher's cache afterwards and the value returned; and, for the
\* record, the instants get_15_features_at_time was called for, in call
\* order, and the frame handed to create_features_from_3hours, if any
predict_pm25_for_district(c, district, year, month, day, hour, minute, fail, pred, t) ==
    LET target_time == Localize(year, month, day, hour, minute)
        coords == <<district.lat, district.lon>>
    IN  Then(get_15_features_at_time(c, time_t2(target_time), coords,
                                     AirUpstream("air_t2", fail, time_t2(target_time)),
                                     WeatherUpstream("weather_t2", fail, time_t2(target_time)), t),
             LAMBDA f2 :
        IF f2.raised
        THEN [c |-> f2.c, result |-> Handler(district, f2.exc),
              fetched |-> <<time_t2(target_time)>>, frame |-> <<>>]
        ELSE
        Then(get_15_features_at_time(f2.c, time_t1(target_time), coords,
                                     AirUpstream("air_t1", fail, time_t1(target_time)),
                                     WeatherUpstream("weather_t1", fail, time_t1(target_time)), t),
             LAMBDA f1 :
        IF f1.raised
        THEN [c |-> f1.c, result |-> Handler(district, f1.exc),
              fetched |-> <<time_t2(target_time), time_t1(target_time)>>, frame |-> <<>>]
        ELSE
        Then(get_15_features_at_time(f1.c, target_time, coords,
                                     AirUpstream("air_t0", fail, target_time),
                                     WeatherUpstream("weather_t0", fail, target_time), t),
             LAMBDA f0 :
        IF f0.raised
        THEN [c |-> f0.c, result |-> Handler(district, f0.exc),
              fetched |-> <<time_t2(target_time), time_t1(target_time), target_time>>,
              frame |-> <<>>]
        ELSE IF fail.stage \in {"features", "columns", "scaler", "model"}
             THEN [c |-> f0.c, result |-> Handler(district, fail.exc),
                   fetched |-> <<time_t2(target_time), time_t1(target_time), target_time>>,
                   frame |-> df_3hours_of(f2.ret, f1.ret, f0.ret)]
             ELSE [c |-> f0.c, result |-> SuccessResult(district, pred, f0.ret),
                   fetched |-> <<time_t2(target_time), time_t1(target_time), target_time>>,
                   frame |-> df_3hours_of(f2.ret, f1.ret, f0.ret)])))

-----------------------------------------------------------------------------
(* Inputs of the validator runs.                                            *)

\* the clock at construction: 2025-11-25 10:00:00 local
BaseNow == Localize(2025, 11, 25, 10, 0)

MaxNowStep == 2      \* clocks tried: BaseNow + 0 s, 30 s, 60 s, ...
MaxSlack == 3        \* minutes tried on each side of every rule's boundary

Nows == {BaseNow + 30 * i : i \in 0..MaxNowStep}

\* minute-aligned target instants: around the three boundaries, the spec's
\* four scenario points, and points next to a day and a month end
TargetInstants ==
    {b + Minutes(j) : b \in {BaseNow, BaseNow - Minutes(RecentMinutes),
                              BaseNow - Days(OldestDays)},
                      j \in (0 - MaxSlack)..MaxSlack}
    \cup {BaseNow - Minutes(45), BaseNow + Minutes(5), BaseNow - Minutes(10),
          BaseNow - Days(100)}
    \cup {Localize(2025, 11, 24, 23, 30), Localize(2025, 10, 31, 23, 0),
          Localize(2025, 11, 1, 0, 30), Localize(2025, 11, 24, 22, 15)}

\* the variables of the validator runs while another run is made
IdleValidator ==
    /\ vTarget = BaseNow
    /\ vReq = Strftime(BaseNow)
    /\ vOut = NotCalled

\* the variables of the cache runs while another run is made
IdleCaches ==
    /\ cache_manager = CacheManagerNew(0)
    /\ prediction_cache = PredictionCacheNew(CACHE_TTL_PREDICTION)
    /\ subject = None
    /\ cacheRet = [op |-> "init"]
    /\ setLog = <<>>

\* no predict_all_districts request in progress
Idle == [phase |-> "idle"]

\* no executor has been created.  stalled is the district task whose upstream
\* call never returns, 0 when every call returns.
NoPool == [threads |-> 0, submitted |-> 0, queue |-> <<>>, running |-> {},
           stalled |-> 0]

\* no thread is inside a cache operation
NoWorkers == <<>>

\* the request keys <<year, month, day, hour, minute>> sent to the routes: one
\* that passes validation at every clock of a service run, one that never does
RequestKeys == {<<2025, 11, 25, 9, 30>>, <<2025, 11, 25, 10, 30>>}

\* the variables of the service runs while another run is made
IdleService ==
    /\ app_cache_manager = CacheManagerNew(0)
    /\ districts = <<>>
    /\ batch = Idle
    /\ lastResp = [route |-> "none"]
    /\ lastStored = [k \in RequestKeys |-> NoneObj]
    /\ clears = 0
    /\ pOut = NotCalled
    /\ pool = NoPool
    /\ workers = NoWorkers

InitValidate ==
    /\ now \in Nows
    /\ vTarget \in TargetInstants
    /\ vReq = Strftime(vTarget)
    /\ vOut = NotCalled
    /\ IdleCaches
    /\ IdleService
    /\ fRun = NotCalled
    /\ fetchRun = NotCalled

\* one call of validate_prediction_request
Validate ==
    /\ vOut = NotCalled
    /\ vOut' = validate_prediction_request(now, vReq[1], vReq[2], vReq[3],
                                           vReq[4], vReq[5])
    /\ UNCHANGED <<now, vTarget, vReq, cacheVars, svcVars>>

NextValidate == Validate

SpecValidate == InitValidate /\ [][NextValidate]_vars

-----------------------------------------------------------------------------
(* Cache runs: one cache object, a CacheManager or a PredictionCache, is    *)
(* constructed empty and driven by any sequence of its operations while the *)
(* clock advances.                                                          *)

MaxTicks == 2        \* clock steps of a cache run
MaxHits == 1         \* hits counted per entry before gets of it stop

CacheKeys == {"k1", "k2", "k3"}
CacheValues == {[v |-> "a"], [v |-> "b"]}
CacheTtls == {CACHE_TTL_AIR, CACHE_TTL_WEATHER}

\* max_size of the CacheManager under test: one less than the keys used
Capacity == Cardinality(CacheKeys) - 1

\* the clock step of a cache run: the shortest TTL
TickSeconds == CACHE_TTL_AIR

ResultKeys == {<<2025, 11, 25, 9, 0>>, <<2025, 11, 25, 9, 15>>}
ResultValues == {[v |-> "r1"], [v |-> "r2"]}

\* the TTLs a PredictionCache under test is constructed with: the configured
\* one and a longer one, under which an entry is still alive after a clock step
ResultTtls == {CACHE_TTL_PREDICTION, 2 * CACHE_TTL_PREDICTION}

\* the set log of a run that left the insert-only scenario
Void == <<None>>

InitCache ==
    /\ now = BaseNow
    /\ IdleValidator
    /\ subject \in {"CacheManager", "PredictionCache"}
    /\ cache_manager = CacheManagerNew(Capacity)
    /\ prediction_cache \in {PredictionCacheNew(ttl) : ttl \in ResultTtls}
    /\ subject = "CacheManager" => prediction_cache.ttl = CACHE_TTL_PREDICTION
    /\ cacheRet = [op |-> "init"]
    /\ setLog = <<>>
    /\ app_cache_manager = CacheManagerNew(0)
    /\ districts = <<>>
    /\ batch = Idle
    /\ lastResp = [route |-> "none"]
    /\ lastStored = [k \in ResultKeys |-> NoneObj]
    /\ clears = 0
    /\ pOut = NotCalled
    /\ pool = NoPool
    /\ workers = NoWorkers
    /\ fRun = NotCalled
    /\ fetchRun = NotCalled

\* cache_manager.get(key, ttl)
CacheGet(key, ttl) ==
    /\ subject = "CacheManager"
    /\ DictGet(cache_manager.access_count, key, 0) < MaxHits
    /\ LET r == CM_get(cache_manager, key, ttl, now)
       IN  /\ cache_manager' = r.c
           /\ cacheRet' = [op |-> "get", key |-> key, ttl |-> ttl, ret |-> r.ret]
    /\ UNCHANGED <<now, valVars, prediction_cache, subject, setLog, svcVars>>

\* cache_manager.set(key, value)
CacheSet(key, value) ==
    /\ subject = "CacheManager"
    /\ cache_manager' = CM_set(cache_manager, key, value, now)
    /\ cacheRet' = [op |-> "set", key |-> key, value |-> value, ret |-> NoneObj]
    /\ setLog' = IF \/ setLog = Void
                     \/ key \in {setLog[i] : i \in 1..Len(setLog)}
                     \/ Len(setLog) > Capacity
                  THEN Void
                  ELSE Append(setLog, key)
    /\ UNCHANGED <<now, valVars, prediction_cache, subject, svcVars>>

\* cache_manager.clear()
CacheClear ==
    /\ subject = "CacheManager"
    /\ LET r == CM_clear(cache_manager)
       IN  /\ cache_manager' = r.c
           /\ cacheRet' = [op |-> "clear", ret |-> r.ret, logged |-> r.logged]
    /\ setLog' = <<>>
    /\ UNCHANGED <<now, valVars, prediction_cache, subject, svcVars>>

\* prediction_cache.get(year, month, day, hour, minute)
ResultGet(key) ==
    /\ subject = "PredictionCache"
    /\ LET r == PC_get(prediction_cache, key[1], key[2], key[3], key[4], key[5], now)
       IN  /\ prediction_cache' = r.c
           /\ cacheRet' = [op |-> "get", key |-> key, ret |-> r.ret]
    /\ UNCHANGED <<now, valVars, cache_manager, subject, setLog, svcVars>>

\* prediction_cache.set(year, month, day, hour, minute, result)
ResultSet(key, result) ==
    /\ subject = "PredictionCache"
    /\ prediction_cache' = PC_set(prediction_cache, key[1], key[2], key[3], key[4],
                                  key[5], result, now)
    /\ cacheRet' = [op |-> "set", key |-> key, value |-> result, ret |-> NoneObj]
    /\ lastStored' = [lastStored EXCEPT ![key] =
                         [resp |-> result, at |-> TimeTime(now), cleared |-> FALSE]]
    /\ UNCHANGED <<now, valVars, cache_manager, subject, setLog, app_cache_manager,
                   districts, batch, lastResp, clears, pOut, pool, workers, fRun, fetchRun>>

\* prediction_cache.clear()
ResultClear ==
    /\ subject = "PredictionCache"
    /\ LET r == PC_clear(prediction_cache)
       IN  /\ prediction_cache' = r.c
           /\ cacheRet' = [op |-> "clear", ret |-> r.ret, logged |-> r.logged]
    /\ lastStored' = [k \in ResultKeys |->
                         IF lastStored[k] = NoneObj THEN NoneObj
                         ELSE [lastStored[k] EXCEPT !.cleared = TRUE]]
    /\ UNCHANGED <<now, valVars, cache_manager, subject, setLog, app_cache_manager,
                   districts, batch, lastResp, clears, pOut, pool, workers, fRun, fetchRun>>

\* the clock advances between two operations
CacheTick ==
    /\ now < BaseNow + MaxTicks * TickSeconds
    /\ now' = now + TickSeconds
    /\ cacheRet' = [op |-> "tick"]
    /\ UNCHANGED <<valVars, cache_manager, prediction_cache, subject, setLog, svcVars>>

NextCache ==
    \/ \E key \in CacheKeys, ttl \in CacheTtls : CacheGet(key, ttl)
    \/ \E key \in CacheKeys, value \in CacheValues : CacheSet(key, value)
    \/ CacheClear
    \/ \E key \in ResultKeys : ResultGet(key)
    \/ \E key \in ResultKeys, result \in ResultValues : ResultSet(key, result)
    \/ ResultClear
    \/ CacheTick

SpecCache == InitCache /\ [][NextCache]_vars

-----------------------------------------------------------------------------
(* The district list (districts.json, read once by app.py) and the settings *)
(* of the service.                                                          *)

MAX_CACHE_SIZE == 2000
max_size_default == 2000
MAX_WORKERS == 10

\* a well-formed district record: every key of the data model is present
District(i) ==
    [id |-> i, name |-> <<"name", i>>, name_en |-> <<"name_en", i>>,
     lat |-> 10000 + i, lon |-> 106000 + i, population |-> 1000 * i,
     area_km2 |-> 10 * i, type |-> "urban"]

DistrictList(n) == [i \in 1..n |-> District(i)]

\* values of round(float(model.predict(...)[0]), 2), in hundredths of ug/m3
PredValues == {1500, 5542}

-----------------------------------------------------------------------------
(* Predictor runs: predict_pm25_for_district is called for one district,    *)
(* any request key and any failure, several times in a row on the fetcher's *)
(* cache, so that later calls find what earlier calls stored.               *)

MaxRuns == 2         \* calls of a predictor run
MaxDistricts == 2    \* districts loaded by a service run: 0..MaxDistricts

\* request keys whose three snapshots are all of today, all of an earlier
\* day, and on both sides of local midnight
PredictKeys == {<<2025, 11, 25, 9, 30>>, <<2025, 11, 24, 22, 15>>,
                <<2025, 11, 25, 0, 30>>}

InitPredict ==
    /\ now = BaseNow
    /\ IdleValidator
    /\ cache_manager = CacheManagerNew(max_size_default)
    /\ prediction_cache = PredictionCacheNew(CACHE_TTL_PREDICTION)
    /\ subject = None
    /\ cacheRet = [op |-> "init"]
    /\ setLog = <<>>
    /\ app_cache_manager = CacheManagerNew(0)
    /\ districts = DistrictList(1)
    /\ batch = Idle
    /\ lastResp = [route |-> "none"]
    /\ lastStored = [k \in RequestKeys |-> NoneObj]
    /\ clears = 0
    /\ pOut = [runs |-> 0]
    /\ pool = NoPool
    /\ workers = NoWorkers
    /\ fRun = NotCalled
    /\ fetchRun = NotCalled

\* one call of predict_pm25_for_district
Predict(i, key, fail, pred) ==
    /\ pOut.runs < MaxRuns
    /\ i \in DOMAIN districts
    /\ LET district == districts[i]
           r == predict_pm25_for_district(cache_manager, district, key[1], key[2],
                                          key[3], key[4], key[5], fail, pred, now)
       IN  /\ cache_manager' = r.c
           /\ pOut' = [runs |-> pOut.runs + 1, district |-> district, key |-> key,
                       fail |-> fail, pred |-> pred, before |-> cache_manager,
                       result |-> r.result, fetched |-> r.fetched, frame |-> r.frame]
    /\ UNCHANGED <<now, valVars, prediction_cache, subject, cacheRet, setLog,
                   app_cache_manager, districts, batch, lastResp, lastStored, clears,
                   pool, workers, fRun, fetchRun>>

NextPredict ==
    \E i \in DOMAIN DistrictList(1), key \in PredictKeys,
       fail \in Failures \cup {NoFailure}, pred \in PredValues :
        Predict(i, key, fail, pred)

SpecPredict == InitPredict /\ [][NextPredict]_vars

-----------------------------------------------------------------------------
(* Feature engine runs: create_features_from_3hours is called once on a     *)
(* frame of snapshots, one per hour up to the target instant, handed over   *)
(* in ascending or in another order, whole or with one value missing.       *)

MaxPm == 4           \* pm2_5 readings drawn for each row: 0..MaxPm and 10, 20, 30
MaxRows == 4         \* rows of the longest frame

FeatureTarget == Localize(2025, 11, 25, 9, 30)

PmValues == (0..MaxPm) \cup {10, 20, 30}

Columns == AirColumns \cup WeatherColumns

\* the dict get_15_features_at_time returns for the instant dt, every value
\* present
Snapshot(dt, pm2_5) ==
    [datetime |-> dt,
     co |-> Ratio(4673, 10), no |-> Ratio(1, 100), no2 |-> Ratio(217, 10),
     o3 |-> Float(38), so2 |-> Ratio(143, 10), pm2_5 |-> Float(pm2_5),
     pm10 |-> Ratio(523, 10), nh3 |-> Ratio(9, 2),
     temperature_2m |-> Ratio(263, 10) , relative_humidity_2m |-> Float(74),
     precipitation |-> Ratio(1, 10), pressure_msl |-> Ratio(10112, 10),
     windspeed_10m |-> Ratio(87, 10) , winddirection_10m |-> Float(135),
     shortwave_radiation |-> Float(412)]

\* the frame of the hours up to the target with the given pm2_5 readings,
\* oldest first
Frame(readings) ==
    [i \in 1..Len(readings) |->
        Snapshot(FeatureTarget - Hours(Len(readings) - i), readings[i])]

Orders == {<<1, 2, 3>>, <<3, 1, 2>>}

Permuted(df, order) == [i \in 1..Len(df) |-> df[order[i]]]

\* df with the value of column col missing in row i
WithNaN(df, i, col) == [df EXCEPT ![i][col] = NaN]

\* three rows of every reading in two orders, three rows with one value
\* missing, and frames of fewer and of more than three rows
FeatureInputs ==
    {Permuted(Frame(<<a, b, c>>), order) :
        a \in PmValues, b \in PmValues, c \in PmValues, order \in Orders}
    \cup {WithNaN(Frame(<<10, 20, 30>>), i, col) : i \in 1..3, col \in Columns}
    \cup {Frame([i \in 1..n |-> 10 * i]) : n \in 0..MaxRows}

InitFeatures ==
    /\ now = BaseNow
    /\ IdleValidator
    /\ IdleCaches
    /\ IdleService
    /\ fetchRun = NotCalled
    /\ fRun \in {[calls |-> 0, passed |-> df, df_3hours |-> df, out |-> NotCalled] :
                    df \in FeatureInputs}

\* one call of create_features_from_3hours on the frame the caller holds
FeatureCall ==
    /\ fRun.calls = 0
    /\ LET r == create_features_from_3hours(fRun.df_3hours)
       IN  fRun' = [calls |-> 1, passed |-> fRun.df_3hours, df_3hours |-> r.arg,
                    out |-> [raised |-> r.raised, exc |-> r.exc, ret |-> r.ret]]
    /\ UNCHANGED <<now, valVars, cacheVars, app_cache_manager, districts, batch,
                   lastResp, lastStored, clears, pOut, pool, workers, fetchRun>>

NextFeatures == FeatureCall

SpecFeatures == InitFeatures /\ [][NextFeatures]_vars

-----------------------------------------------------------------------------
(* Concurrent feature engine calls: the threads of a batch each call        *)
(* create_features_from_3hours on a frame of their own, of any content, and *)
(* a thread switch can fall between the sort and the rest of the function.  *)
(* fRun.held[w] is the frame thread w passed, as w holds it; fRun.local[w]  *)
(* is df, the local frame of the call w is in; fRun.log lists, in the order *)
(* the calls ended, the frame each was passed and what it returned.         *)

MaxFeatureThreads == 2   \* threads calling the engine
MaxFeatureCalls == 3     \* calls made in one run

CallInputs ==
    {Frame(<<10, 20, 30>>), Permuted(Frame(<<10, 20, 30>>), <<3, 1, 2>>),
     Frame(<<30, 20, 10>>), WithNaN(Frame(<<10, 20, 30>>), 2, "so2"), Frame(<<10, 20>>)}

Outside == [inside |-> FALSE]

InitFeatureCalls ==
    /\ now = BaseNow
    /\ IdleValidator
    /\ IdleCaches
    /\ IdleService
    /\ fetchRun = NotCalled
    /\ fRun = [begun |-> 0,
               passed |-> [w \in 1..MaxFeatureThreads |-> <<>>],
               held |-> [w \in 1..MaxFeatureThreads |-> <<>>],
               local |-> [w \in 1..MaxFeatureThreads |-> Outside],
               log |-> <<>>]

FeatureFrame == <<now, valVars, cacheVars, app_cache_manager, districts, batch,
                  lastResp, lastStored, clears, pOut, pool, workers, fetchRun>>

\* thread w calls the engine on df_3hours and runs it up to the sort (lines
\* 11-19): a frame of fewer than 3 rows ends the call at once
FeatureEnter(w, df_3hours) ==
    /\ fRun.begun < MaxFeatureCalls
    /\ ~fRun.local[w].inside
    /\ IF Len(df_3hours) < 3
       THEN fRun' = [fRun EXCEPT
                        !.begun = @ + 1,
                        !.passed[w] = df_3hours,
                        !.held[w] = create_features_from_3hours(df_3hours).arg,
                        !.log = Append(@, <<df_3hours,
                                    [raised |-> TRUE,
                                     exc |-> create_features_from_3hours(df_3hours).exc,
                                     ret |-> <<>>]>>)]
       ELSE fRun' = [fRun EXCEPT
                        !.begun = @ + 1,
                        !.passed[w] = df_3hours,
                        !.held[w] = sort_index_copy(df_3hours).arg,
                        !.local[w] = [inside |-> TRUE,
                                      df |-> sort_index_copy(df_3hours).out]]
    /\ UNCHANGED FeatureFrame

\* thread w runs the call it is in to its end (lines 20-87)
FeatureReturn(w) ==
    /\ fRun.local[w].inside
    /\ LET r == derive_features([arg |-> fRun.held[w], out |-> fRun.local[w].df])
       IN  fRun' = [fRun EXCEPT
                       !.held[w] = r.arg,
                       !.local[w] = Outside,
                       !.log = Append(@, <<fRun.passed[w],
                                   [raised |-> r.raised, exc |-> r.exc, ret |-> r.ret]>>)]
    /\ UNCHANGED FeatureFrame

NextFeatureCalls ==
    \/ \E w \in 1..MaxFeatureThreads, df_3hours \in CallInputs : FeatureEnter(w, df_3hours)
    \/ \E w \in 1..MaxFeatureThreads : FeatureReturn(w)

SpecFeatureCalls == InitFeatureCalls /\ [][NextFeatureCalls]_vars

-----------------------------------------------------------------------------
(* Fetcher runs: fetch_air_quality_at_time and fetch_weather_at_time are    *)
(* called one after the other on the fetcher's cache, for instants of today *)
(* and of the day before at the coordinates of one district, while the      *)
(* clock advances; the provider called answers with any of the answers      *)
(* below, or fails.                                                         *)

MaxLookups == 3      \* lookups made in one run
MaxFetchTicks == 4   \* clock steps of a fetcher run

FetchStep == CACHE_TTL_AIR \div 2

FetchInstants == {Localize(2025, 11, 24, 23, 30), Localize(2025, 11, 25, 9, 30)}

FetchCoords == <<District(1).lat, District(1).lon>>

\* a record of data["list"]: its timestamp and its components
Record(dt, reading) == [dt |-> dt, components |-> [source |-> "air", reading |-> reading]]

\* the lists the air-quality provider answers with for timestamp_utc: none,
\* one record, records at different distances and at the same distance
AirLists(timestamp_utc) ==
    {<<>>,
     <<Record(timestamp_utc, 1)>>,
     <<Record(timestamp_utc - 600, 1), Record(timestamp_utc + 60, 2)>>,
     <<Record(timestamp_utc + 60, 1), Record(timestamp_utc - 60, 2)>>,
     <<Record(timestamp_utc + 600, 1), Record(timestamp_utc - 540, 2),
       Record(timestamp_utc + 540, 3)>>}

AirAnswers(timestamp_utc) ==
    {[ok |-> FALSE, exc |-> "HTTPError"]}
    \cup {[ok |-> TRUE, list |-> list] : list \in AirLists(timestamp_utc)}

\* a row of data["hourly"]: its printed time and its measurements
Row(time, reading) == [time |-> time, values |-> [source |-> "weather", reading |-> reading]]

\* the columns of a payload that lacks none
AllColumns == ArchiveColumns \cup {"time"}

\* what a weather provider answers for an instant: a failed request, a
\* payload without hourly data, a payload that lacks a column, or the row of
\* the hour of the instant
WeatherAnswers(instant) ==
    {[ok |-> FALSE, exc |-> "ConnectionError"],
     [ok |-> TRUE, columns |-> {}, hourly |-> <<>>],
     [ok |-> TRUE, columns |-> AllColumns \ {"pressure_msl"},
      hourly |-> <<Row(TimeTime(target_hour(instant)), 1)>>]}
    \cup {[ok |-> TRUE, columns |-> AllColumns,
           hourly |-> <<Row(TimeTime(target_hour(instant)), reading)>>] :
             reading \in 1..2}

\* what identifies a lookup: the source kind, the time bucket and the
\* coordinates
AirLookup(instant) == <<"air", <<TimeTime(instant)>>, FetchCoords>>

\* the calendar date of a local time, and the order of two dates
DateOf(dt) == SubSeq(Strftime(dt), 1, 3)

DateBefore(x, y) ==
    \/ x[1] < y[1]
    \/ x[1] = y[1] /\ x[2] < y[2]
    \/ x[1] = y[1] /\ x[2] = y[2] /\ x[3] < y[3]

WeatherLookup(instant, t) ==
    <<IF DateBefore(DateOf(instant), DateOf(t)) THEN "weather_archive"
      ELSE "weather_forecast",
      SubSeq(Strftime(instant), 1, 4), FetchCoords>>

InitFetch ==
    /\ now = BaseNow
    /\ IdleValidator
    /\ cache_manager = CacheManagerNew(max_size_default)
    /\ prediction_cache = PredictionCacheNew(CACHE_TTL_PREDICTION)
    /\ subject = None
    /\ cacheRet = [op |-> "init"]
    /\ setLog = <<>>
    /\ IdleService
    /\ fRun = NotCalled
    /\ fetchRun = [lookups |-> 0, last |-> NotCalled, stores |-> EmptyDict]

FetchFrame == <<valVars, prediction_cache, subject, cacheRet, setLog, app_cache_manager,
                districts, batch, lastResp, lastStored, clears, pOut, pool, workers, fRun>>

\* the run after a lookup identified by id that went as r says
AfterLookup(id, instant, up, r) ==
    [lookups |-> fetchRun.lookups + 1,
     last |-> [id |-> id, instant |-> instant, up |-> up, raised |-> r.raised,
               exc |-> r.exc, ret |-> r.ret, upstream |-> r.upstream],
     stores |-> IF ~r.raised /\ r.upstream = 1
                THEN DictPut(fetchRun.stores, id, [at |-> TimeTime(now), value |-> r.ret])
                ELSE fetchRun.stores]

\* one call of fetch_air_quality_at_time
FetchAir(instant, up) ==
    /\ fetchRun.lookups < MaxLookups
    /\ LET r == fetch_air_quality_at_time(cache_manager, TimeTime(instant), FetchCoords,
                                          up, now)
       IN  /\ cache_manager' = r.c
           /\ fetchRun' = AfterLookup(AirLookup(instant), instant, up, r)
    /\ UNCHANGED <<now, FetchFrame>>

\* one call of fetch_weather_at_time
FetchWeather(instant, up) ==
    /\ fetchRun.lookups < MaxLookups
    /\ LET r == fetch_weather_at_time(cache_manager, instant, FetchCoords, up, now)
       IN  /\ cache_manager' = r.c
           /\ fetchRun' = AfterLookup(WeatherLookup(instant, now), instant, up, r)
    /\ UNCHANGED <<now, FetchFrame>>

FetchTick ==
    /\ now < BaseNow + MaxFetchTicks * FetchStep
    /\ now' = now + FetchStep
    /\ UNCHANGED <<cache_manager, fetchRun, FetchFrame>>

NextFetch ==
    \/ \E instant \in FetchInstants :
          \E up \in AirAnswers(TimeTime(instant)) : FetchAir(instant, up)
    \/ \E instant \in FetchInstants :
          \E up \in WeatherAnswers(instant) : FetchWeather(instant, up)
    \/ FetchTick

SpecFetch == InitFetch /\ [][NextFetch]_vars

-----------------------------------------------------------------------------
(* Weather runs: fetch_weather_at_time is called for one instant, of any    *)
(* hour of the day before or of the morning of today, several times in a    *)
(* row on the fetcher's cache.  The provider answers with the complete day  *)
(* it was asked for, or with a shorter series.                              *)

MaxWeatherCalls == 2   \* calls made in one run

\* the instants asked for: half past every hour of the day before, which the
\* archive is asked for, and two instants of today
WeatherInstants ==
    {Localize(2025, 11, 24, h, 30) : h \in 0..23}
    \cup {Localize(2025, 11, 25, 8, 30), Localize(2025, 11, 25, 9, 30)}

\* what the archive provider holds for the request params: the 24 hours of
\* start_date, printed in the timezone of the request
ArchiveDay(params) ==
    LET midnight == Localize(params.start_date[1], params.start_date[2],
                             params.start_date[3], 0, 0)
    IN  [ok |-> TRUE, columns |-> AllColumns,
         hourly |-> [k \in 1..24 |-> Row(midnight + Hours(k - 1), k)]]

AnswerKinds == {"day", "exact", "near", "far", "no rows"}

\* the answer of a kind to the request for an instant: the complete day of
\* the request; the hour of the instant between its neighbours; rows one and
\* two hours off, none of the hour itself; one row three days off; no row
HourlyAnswer(kind, instant) ==
    LET hour == TimeTime(target_hour(instant))
    IN  CASE kind = "day" -> ArchiveDay(ArchiveParams(instant))
          [] kind = "exact" ->
                 [ok |-> TRUE, columns |-> AllColumns,
                  hourly |-> <<Row(hour - Hours(1), 1), Row(hour, 2),
                               Row(hour + Hours(1), 3)>>]
          [] kind = "near" ->
                 [ok |-> TRUE, columns |-> AllColumns,
                  hourly |-> <<Row(hour - Hours(2), 1), Row(hour + Hours(1), 2),
                               Row(hour - Hours(1), 3)>>]
          [] kind = "far" ->
                 [ok |-> TRUE, columns |-> AllColumns,
                  hourly |-> <<Row(hour + Days(3), 1)>>]
          [] OTHER -> [ok |-> TRUE, columns |-> AllColumns, hourly |-> <<>>]

InitWeather ==
    /\ now = BaseNow
    /\ IdleValidator
    /\ cache_manager = CacheManagerNew(max_size_default)
    /\ prediction_cache = PredictionCacheNew(CACHE_TTL_PREDICTION)
    /\ subject = None
    /\ cacheRet = [op |-> "init"]
    /\ setLog = <<>>
    /\ IdleService
    /\ fRun = NotCalled
    /\ fetchRun \in {[instant |-> instant, lookups |-> 0, last |-> NotCalled,
                      stores |-> EmptyDict] : instant \in WeatherInstants}

\* one call of fetch_weather_at_time for the instant of the run
WeatherCall(kind) ==
    /\ fetchRun.lookups < MaxWeatherCalls
    /\ LET instant == fetchRun.instant
           up == HourlyAnswer(kind, instant)
           r == fetch_weather_at_time(cache_manager, instant, FetchCoords, up, now)
           after == AfterLookup(WeatherLookup(instant, now), instant, up, r)
       IN  /\ cache_manager' = r.c
           /\ fetchRun' = [instant |-> instant, lookups |-> after.lookups,
                           last |-> after.last, stores |-> after.stores]
    /\ UNCHANGED <<now, FetchFrame>>

NextWeather == \E kind \in AnswerKinds : WeatherCall(kind)

SpecWeather == InitWeather /\ [][NextWeather]_vars

-----------------------------------------------------------------------------
(* Batch Orchestrator: predict_all_districts, and the cache-clear route.    *)
(* Responses are the dicts handed to json_response, with the HTTP status.   *)

\* error_response(json_response, error_code, message, details, status_code)
error_response(error_code, details, status_code, t) ==
    [status |-> status_code,
     body |-> [success |-> FALSE,
               error |-> [code |-> error_code, timestamp |-> t, details |-> details]]]

\* success_response(json_response, data, message)
success_response(data, message, t) ==
    [status |-> 200,
     body |-> [success |-> TRUE, data |-> data, message |-> message, timestamp |-> t]]

\* a list left in the order of completion
Unsorted(s) == s

\* list.sort(key=lambda x: x['id']): a stable sort by id
RECURSIVE SortById(_)
SortById(s) ==
    IF Len(s) <= 1 THEN s
    ELSE LET rest == SortById(Tail(s))
             k == Cardinality({i \in 1..Len(rest) : rest[i].id < Head(s).id})
         IN  SubSeq(rest, 1, k) \o <<Head(s)>> \o SubSeq(rest, k + 1, Len(rest))

\* an as_completed loop body that keeps successful results only
CollectSuccesses(lists, result) ==
    IF result.status = "success"
    THEN [lists EXCEPT !.results = Append(@, result)]
    ELSE lists

\* the as_completed loop body: one result is filed by its status
Collect(lists, result) ==
    IF result.status = "success"
    THEN [lists EXCEPT !.results = Append(@, result)]
    ELSE [lists EXCEPT !.errors = Append(@, result)]

RECURSIVE Sum(_)
Sum(s) == IF Len(s) = 0 THEN 0 ELSE Head(s) + Sum(Tail(s))

\* round(a / b, 0) for b > 0; no argument used is a tie
RoundDiv(a, b) == (2 * a + b) \div (2 * b)

\* sorted(values)
RECURSIVE SortValues(_)
SortValues(s) ==
    IF Len(s) <= 1 THEN s
    ELSE LET rest == SortValues(Tail(s))
             k == Cardinality({i \in 1..Len(rest) : rest[i] < Head(s)})
         IN  SubSeq(rest, 1, k) \o <<Head(s)>> \o SubSeq(rest, k + 1, Len(rest))

\* np.median: the middle value, or the mean of the two middle values
Median(values) ==
    LET v == SortValues(values)
        n == Len(v)
    IN  IF n % 2 = 1 THEN v[(n + 1) \div 2]
        ELSE RoundDiv(v[n \div 2] + v[n \div 2 + 1], 2)

WhoStandard == 1500
UnhealthyThreshold == 5540

\* the statistics dict; values are in hundredths, city_std is left out
Statistics(results, expected, failed) ==
    IF Len(results) > 0
    THEN LET pm25_values == [i \in 1..Len(results) |-> results[i].pm25_prediction]
             n == Len(pm25_values)
             vs == {pm25_values[i] : i \in 1..n}
         IN  [city_average |-> RoundDiv(Sum(pm25_values), n),
              city_max |-> CHOOSE v \in vs : \A w \in vs : w <= v,
              city_min |-> CHOOSE v \in vs : \A w \in vs : v <= w,
              city_median |-> Median(pm25_values),
              total_districts_successful |-> Len(results),
              total_districts_expected |-> expected,
              total_districts_failed |-> failed,
              success_rate_percent |-> RoundDiv(Len(results) * 10000, expected),
              who_standard_15 |->
                  [above |-> Cardinality({i \in 1..n : pm25_values[i] > WhoStandard}),
                   below |-> Cardinality({i \in 1..n : pm25_values[i] <= WhoStandard})],
              unhealthy_threshold_55 |->
                  Cardinality({i \in 1..n : pm25_values[i] > UnhealthyThreshold})]
    ELSE [error |-> "No successful predictions",
          total_districts_expected |-> expected,
          total_districts_failed |-> failed]

\* a response_data that never embeds the failures
ResponseDataPlain(info, results, errors, statistics, execution_time, expected) ==
    [prediction_info |-> info,
     districts |-> results,
     statistics |-> statistics,
     execution_time_seconds |-> execution_time,
     cache_info |-> [cached |-> FALSE, ttl_seconds |-> CACHE_TTL_PREDICTION]]

\* response_data; the errors and warning keys are set only when errors exist
ResponseData(info, results, errors, statistics, execution_time, expected) ==
    LET response_data ==
            [prediction_info |-> info,
             districts |-> results,
             statistics |-> statistics,
             execution_time_seconds |-> execution_time,
             cache_info |-> [cached |-> FALSE, ttl_seconds |-> CACHE_TTL_PREDICTION]]
    IN  IF Len(errors) > 0
        THEN [prediction_info |-> response_data.prediction_info,
              districts |-> response_data.districts,
              statistics |-> response_data.statistics,
              execution_time_seconds |-> response_data.execution_time_seconds,
              cache_info |-> response_data.cache_info,
              errors |-> errors,
              warning |-> <<"Failed", Len(errors), expected>>]
        ELSE response_data

\* the failure tried in a batch: the provider fails the last of the six lookups
BatchFailures == {f \in Failures : f.stage = "weather_t0"}

\* an as_completed loop that ends with the first completed future
SomeCompleted(b) == Len(b.returned) > 0

\* the with-block of the executor and the as_completed loop have ended: every
\* submitted future has completed and its result has been read
AllCompleted(b) == b.futures = {}

MaxClears == 1       \* runs of the cache-clear route
MaxClockTicks == 2   \* clock steps of a service run

\* the clock step of a service run: half the TTL of the result cache
ClockStep == CACHE_TTL_PREDICTION \div 2

Init ==
    /\ now = BaseNow
    /\ IdleValidator
    /\ cache_manager = CacheManagerNew(max_size_default)
    /\ prediction_cache = PredictionCacheNew(CACHE_TTL_PREDICTION)
    /\ subject = None
    /\ cacheRet = [op |-> "init"]
    /\ setLog = <<>>
    /\ app_cache_manager = CacheManagerNew(MAX_CACHE_SIZE)
    /\ districts \in {DistrictList(n) : n \in 0..MaxDistricts}
    /\ batch = Idle
    /\ lastResp = [route |-> "none"]
    /\ lastStored = [k \in RequestKeys |-> NoneObj]
    /\ clears = 0
    /\ pOut = NotCalled
    /\ pool = NoPool
    /\ workers = NoWorkers
    /\ fRun = NotCalled
    /\ fetchRun = NotCalled

\* predict_all_districts up to the dispatch of the district tasks: the
\* request is rejected, answered from the result cache, or dispatched.
\* One request is in progress at a time.
PredictAllBegin(key) ==
    /\ batch = Idle
    /\ LET v == validate_prediction_request(now, key[1], key[2], key[3], key[4], key[5])
           cached == PC_get(prediction_cache, key[1], key[2], key[3], key[4], key[5], now)
       IN  IF ~v.is_valid
           THEN /\ lastResp' = [route |-> "predict_all", key |-> key, dispatched |-> 0,
                                resp |-> error_response(v.error_code, v.info, 400, now)]
                /\ UNCHANGED <<prediction_cache, batch>>
           ELSE IF cached.ret # NoneObj
           THEN /\ lastResp' = [route |-> "predict_all", key |-> key, dispatched |-> 0,
                                resp |-> [status |-> 200, body |-> cached.ret]]
                /\ prediction_cache' = cached.c
                /\ UNCHANGED batch
           ELSE /\ prediction_cache' = cached.c
                /\ batch' = [phase |-> "running", key |-> key, info |-> v.info,
                             start_time |-> TimeTime(now),
                             futures |-> 1..Len(districts),
                             returned |-> <<>>,
                             lists |-> [results |-> <<>>, errors |-> <<>>]]
                /\ UNCHANGED lastResp
    /\ UNCHANGED <<now, valVars, cache_manager, subject, cacheRet, setLog,
                   app_cache_manager, districts, lastStored, clears, pOut, pool, workers, fRun, fetchRun>>

\* one district task runs predict_pm25_for_district on a pool worker, and
\* the as_completed loop files what it returned
DistrictTask(i, fail, pred) ==
    /\ batch.phase = "running"
    /\ i \in batch.futures
    /\ LET r == predict_pm25_for_district(cache_manager, districts[i], batch.key[1],
                    batch.key[2], batch.key[3], batch.key[4], batch.key[5],
                    fail, pred, now)
       IN  /\ cache_manager' = r.c
           /\ batch' = [batch EXCEPT !.futures = @ \ {i},
                                     !.returned = Append(@, r.result),
                                     !.lists = Collect(@, r.result)]
    /\ UNCHANGED <<now, valVars, prediction_cache, subject, cacheRet, setLog,
                   app_cache_manager, districts, lastResp, lastStored, clears, pOut, pool, workers, fRun, fetchRun>>

\* predict_all_districts after every task has completed: sort, statistics,
\* response, result cache.  success/expected*100 in the summary log raises
\* ZeroDivisionError for an empty district list; the handler of Exception
\* answers INTERNAL_ERROR and nothing is stored.
PredictAllFinish ==
    /\ batch.phase = "running"
    /\ AllCompleted(batch)
    /\ LET results == SortById(batch.lists.results)
           errors == SortById(batch.lists.errors)
           expected == Len(districts)
           failed == Len(errors)
           key == batch.key
       IN  IF expected = 0
           THEN /\ lastResp' = [route |-> "predict_all", key |-> key, dispatched |-> 0,
                                resp |-> error_response("INTERNAL_ERROR",
                                            [error_type |-> "ZeroDivisionError"], 500, now)]
                /\ UNCHANGED <<prediction_cache, lastStored>>
           ELSE LET statistics == Statistics(results, expected, failed)
                    response_data == ResponseData(batch.info, results, errors, statistics,
                                         TimeTime(now) - batch.start_time, expected)
                    success_wrapped == success_response(response_data, "ok", now).body
                IN  /\ prediction_cache' = PC_set(prediction_cache, key[1], key[2], key[3],
                                                  key[4], key[5], success_wrapped, now)
                    /\ lastStored' = [lastStored EXCEPT ![key] =
                                         [resp |-> success_wrapped, at |-> TimeTime(now),
                                          cleared |-> FALSE]]
                    /\ lastResp' = [route |-> "predict_all", key |-> key,
                                    dispatched |-> expected,
                                    completed |-> [j \in 1..Len(batch.returned) |->
                                                      batch.returned[j].id],
                                    resp |-> success_response(response_data, "ok", now)]
    /\ batch' = Idle
    /\ UNCHANGED <<now, valVars, cache_manager, subject, cacheRet, setLog,
                   app_cache_manager, districts, clears, pOut, pool, workers, fRun, fetchRun>>

\* POST /api/v2/cache/clear: clear_all_cache, on the CacheManager instance
\* register_routes was given and on the result cache
ClearAllCache ==
    /\ clears < MaxClears
    /\ clears' = clears + 1
    /\ app_cache_manager' = CM_clear(app_cache_manager).c
    /\ prediction_cache' = PC_clear(prediction_cache).c
    /\ lastResp' = [route |-> "cache_clear", dispatched |-> 0,
                    resp |-> [status |-> 200,
                              body |-> [success |-> TRUE,
                                        cache_stats |->
                                            [size |-> CM_size(app_cache_manager'),
                                             max_size |-> app_cache_manager'.max_size],
                                        prediction_cache_stats |->
                                            [size |-> PC_size(prediction_cache')]]]]
    /\ lastStored' = [k \in RequestKeys |->
                         IF lastStored[k] = NoneObj THEN NoneObj
                         ELSE [lastStored[k] EXCEPT !.cleared = TRUE]]
    /\ UNCHANGED <<now, valVars, cache_manager, subject, cacheRet, setLog,
                   districts, batch, pOut, pool, workers, fRun, fetchRun>>

\* the clock advances
Tick ==
    /\ now < BaseNow + MaxClockTicks * ClockStep
    /\ now' = now + ClockStep
    /\ UNCHANGED <<valVars, cacheVars, svcVars>>

Next ==
    \/ \E key \in RequestKeys : PredictAllBegin(key)
    \/ \E i \in 1..MaxDistricts, fail \in BatchFailures \cup {NoFailure},
          pred \in PredValues : DistrictTask(i, fail, pred)
    \/ PredictAllFinish
    \/ ClearAllCache
    \/ Tick

Spec == Init /\ [][Next]_vars

-----------------------------------------------------------------------------
(* The other routes that take a request time: predict_single, get_ranking   *)
(* and get_geojson.  Each operator gives the cache the route works on       *)
(* afterwards, the response, and the number of predictor invocations.       *)

ValidationCodes == {"FUTURE_TIME", "TIME_TOO_RECENT", "TIME_TOO_OLD"}

\* next((d for d in districts if d['id'] == district_id), None)
FindDistrict(ds, district_id) ==
    LET found == {i \in 1..Len(ds) : ds[i].id = district_id}
    IN  IF found = {} THEN NoneObj
        ELSE ds[CHOOSE i \in found : \A j \in found : i <= j]

\* a predict_single that predicts before it looks at the verdict of validation
predict_single_unvalidated(c, ds, key, district_id, fail, pred, t) ==
    LET v == validate_prediction_request(t, key[1], key[2], key[3], key[4], key[5])
        district == FindDistrict(ds, district_id)
    IN  IF district = NoneObj
        THEN [c |-> c, invoked |-> 0,
              resp |-> error_response("DISTRICT_NOT_FOUND",
                           [available_ids |-> [i \in 1..Len(ds) |-> ds[i].id]], 404, t)]
        ELSE Then(predict_pm25_for_district(c, district, key[1], key[2], key[3], key[4],
                                            key[5], fail, pred, t),
                  LAMBDA r :
             IF ~v.is_valid
             THEN [c |-> r.c, invoked |-> 1,
                   resp |-> error_response(v.error_code, v.info, 400, t)]
             ELSE [c |-> r.c, invoked |-> 1,
                   resp |-> success_response(r.result, "ok", t)])

\* predict_single: POST /api/v2/predict/single
predict_single(c, ds, key, district_id, fail, pred, t) ==
    LET v == validate_prediction_request(t, key[1], key[2], key[3], key[4], key[5])
        district == FindDistrict(ds, district_id)
    IN  IF ~v.is_valid
        THEN [c |-> c, invoked |-> 0,
              resp |-> error_response(v.error_code, v.info, 400, t)]
        ELSE IF district = NoneObj
        THEN [c |-> c, invoked |-> 0,
              resp |-> error_response("DISTRICT_NOT_FOUND",
                           [available_ids |-> [i \in 1..Len(ds) |-> ds[i].id]], 404, t)]
        ELSE Then(predict_pm25_for_district(c, district, key[1], key[2], key[3], key[4],
                                            key[5], fail, pred, t),
                  LAMBDA r :
             IF r.result.status = "error"
             THEN [c |-> r.c, invoked |-> 1,
                   resp |-> error_response("PREDICTION_FAILED", r.result, 400, t)]
             ELSE [c |-> r.c, invoked |-> 1,
                   resp |-> success_response(
                                [result |-> r.result, prediction_info |-> v.info,
                                 timestamp_query |-> t], "ok", t)])

\* sorted(s, key=lambda x: x[field], reverse=reverse): stable in both directions
RECURSIVE SortedByField(_, _, _)
SortedByField(s, field, reverse) ==
    IF Len(s) <= 1 THEN s
    ELSE LET rest == SortedByField(Tail(s), field, reverse)
             x == Head(s)
             k == Cardinality({i \in 1..Len(rest) :
                                  IF reverse THEN rest[i][field] > x[field]
                                  ELSE rest[i][field] < x[field]})
         IN  SubSeq(rest, 1, k) \o <<x>> \o SubSeq(rest, k + 1, Len(rest))

\* s[:n] for n >= 0
Slice(s, n) == SubSeq(s, 1, IF n < Len(s) THEN n ELSE Len(s))

BestWorstCount == 5

\* get_ranking: POST /api/v2/ranking
get_ranking(p, key, sort_by, order, limit, t) ==
    LET v == validate_prediction_request(t, key[1], key[2], key[3], key[4], key[5])
    IN  IF ~v.is_valid
        THEN [c |-> p, invoked |-> 0, resp |-> error_response(v.error_code, v.info, 400, t)]
        ELSE Then(PC_get(p, key[1], key[2], key[3], key[4], key[5], t), LAMBDA cached :
             IF cached.ret = NoneObj
             THEN [c |-> cached.c, invoked |-> 0,
                   resp |-> error_response("NO_PREDICTION_DATA",
                                [suggestion |-> "predict/all"], 404, t)]
             ELSE IF sort_by \notin {"pm25", "population"}
             THEN [c |-> cached.c, invoked |-> 0,
                   resp |-> error_response("INVALID_SORT",
                                [valid_options |-> <<"pm25", "population">>], 400, t)]
             ELSE LET districts_data == cached.ret.data.districts
                      stats == cached.ret.data.statistics
                      field == IF sort_by = "pm25" THEN "pm25_prediction" ELSE "population"
                  IN  [c |-> cached.c, invoked |-> 0,
                       resp |-> [status |-> 200,
                                 body |-> [success |-> TRUE, timestamp |-> t,
                                   data |-> [prediction_info |-> v.info,
                                     sort_by |-> sort_by, order |-> order, limit |-> limit,
                                     ranking |-> Slice(SortedByField(districts_data, field,
                                                           order = "desc"), limit),
                                     best_air_quality |->
                                         Slice(SortedByField(districts_data,
                                                   "pm25_prediction", FALSE), BestWorstCount),
                                     worst_air_quality |->
                                         Slice(SortedByField(districts_data,
                                                   "pm25_prediction", TRUE), BestWorstCount),
                                     statistics |-> stats]]]])

\* one feature of the GeoJSON collection
Feature(district) ==
    [type |-> "Feature",
     properties |-> [id |-> district.id, name |-> district.name,
                     name_en |-> district.name_en, pm25 |-> district.pm25_prediction,
                     population |-> district.population, area_km2 |-> district.area_km2,
                     type |-> district.type],
     geometry |-> [type |-> "Point", coordinates |-> <<district.lon, district.lat>>]]

\* get_geojson: POST /api/v2/map/geojson
get_geojson(p, key, t) ==
    LET v == validate_prediction_request(t, key[1], key[2], key[3], key[4], key[5])
    IN  IF ~v.is_valid
        THEN [c |-> p, invoked |-> 0, resp |-> error_response(v.error_code, v.info, 400, t)]
        ELSE Then(PC_get(p, key[1], key[2], key[3], key[4], key[5], t), LAMBDA cached :
             IF cached.ret = NoneObj
             THEN [c |-> cached.c, invoked |-> 0,
                   resp |-> error_response("NO_PREDICTION_DATA",
                                [suggestion |-> "predict/all"], 404, t)]
             ELSE LET districts_data == cached.ret.data.districts
                      stats == cached.ret.data.statistics
                  IN  [c |-> cached.c, invoked |-> 0,
                       resp |-> [status |-> 200,
                                 body |-> [success |-> TRUE, timestamp |-> t,
                                   data |-> [type |-> "FeatureCollection",
                                     prediction_info |-> v.info,
                                     features |-> [i \in 1..Len(districts_data) |->
                                                      Feature(districts_data[i])],
                                     statistics |-> stats]]]])

MaxAccess == 1       \* hits counted per fetcher entry before single predictions stop

\* the <<sort_by, order, limit>> queries sent to the ranking route
RankingQueries == {<<"pm25", "desc", 10>>, <<"population", "asc", 1>>,
                   <<"name", "desc", 10>>}

\* a service run with every route that takes a request time, on a list of
\* one district
InitRoutes ==
    /\ Init
    /\ Len(districts) = 1

PredictSingle(key, district_id, fail, pred) ==
    /\ \A i \in 1..Len(cache_manager.access_count) :
           cache_manager.access_count[i][2] < MaxAccess
    /\ LET r == predict_single(cache_manager, districts, key, district_id, fail, pred, now)
       IN  /\ cache_manager' = r.c
           /\ lastResp' = [route |-> "predict_single", key |-> key,
                           dispatched |-> r.invoked, resp |-> r.resp]
    /\ UNCHANGED <<now, valVars, prediction_cache, subject, cacheRet, setLog,
                   app_cache_manager, districts, batch, lastStored, clears, pOut, pool, workers, fRun, fetchRun>>

GetRanking(key, query) ==
    /\ LET r == get_ranking(prediction_cache, key, query[1], query[2], query[3], now)
       IN  /\ prediction_cache' = r.c
           /\ lastResp' = [route |-> "ranking", key |-> key,
                           dispatched |-> r.invoked, resp |-> r.resp]
    /\ UNCHANGED <<now, valVars, cache_manager, subject, cacheRet, setLog,
                   app_cache_manager, districts, batch, lastStored, clears, pOut, pool, workers, fRun, fetchRun>>

GetGeojson(key) ==
    /\ LET r == get_geojson(prediction_cache, key, now)
       IN  /\ prediction_cache' = r.c
           /\ lastResp' = [route |-> "geojson", key |-> key,
                           dispatched |-> r.invoked, resp |-> r.resp]
    /\ UNCHANGED <<now, valVars, cache_manager, subject, cacheRet, setLog,
                   app_cache_manager, districts, batch, lastStored, clears, pOut, pool, workers, fRun, fetchRun>>

NextRoutes ==
    \/ \E key \in RequestKeys : PredictAllBegin(key)
    \/ \E i \in 1..MaxDistricts, fail \in BatchFailures \cup {NoFailure},
          pred \in PredValues : DistrictTask(i, fail, pred)
    \/ PredictAllFinish
    \/ Tick
    \/ \E key \in RequestKeys, district_id \in {1, MaxDistricts + 1},
          fail \in BatchFailures \cup {NoFailure}, pred \in PredValues :
          PredictSingle(key, district_id, fail, pred)
    \/ \E key \in RequestKeys, query \in RankingQueries : GetRanking(key, query)
    \/ \E key \in RequestKeys : GetGeojson(key)

SpecRoutes == InitRoutes /\ [][NextRoutes]_vars

-----------------------------------------------------------------------------
(* The worker pool of a batch: ThreadPoolExecutor(max_workers=MAX_WORKERS)   *)
(* as predict_all_districts uses it.  submit puts a task on the work queue   *)
(* and starts a worker thread while fewer than max_workers exist; a worker   *)
(* that is free takes the task at the head of the queue and runs it to its   *)
(* end.  The district tasks of Spec are split here into their start and     *)
(* their end, so that tasks in execution can be counted.                     *)

PoolDistricts == 12  \* districts of a pool run, more than MAX_WORKERS

\* a pool that is sized by the number of tasks
max_workers_per_task(n) == n

\* a pool of one worker thread
max_workers_one(n) == 1

\* max_workers of the executor of a batch over n districts
max_workers(n) == MAX_WORKERS

\* the failure tried in a pool run: the provider is down, so that each task
\* fails at its first lookup and leaves the fetcher's cache as it was
PoolFailures == {f \in Failures : f.stage = "air_t2"}

InitPool ==
    /\ now = BaseNow
    /\ IdleValidator
    /\ IdleCaches
    /\ app_cache_manager = CacheManagerNew(MAX_CACHE_SIZE)
    /\ districts \in {DistrictList(n) : n \in 0..PoolDistricts}
    /\ batch = Idle
    /\ lastResp = [route |-> "none"]
    /\ lastStored = [k \in RequestKeys |-> NoneObj]
    /\ clears = 0
    /\ pOut = NotCalled
    /\ pool = NoPool
    /\ workers = NoWorkers
    /\ fRun = NotCalled
    /\ fetchRun = NotCalled

\* executor.submit(predict_pm25_for_district, district, ...) for the next
\* district of the comprehension
PoolSubmit ==
    /\ batch.phase = "running"
    /\ pool.submitted < Len(districts)
    /\ pool' = [pool EXCEPT
                   !.submitted = @ + 1,
                   !.queue = Append(@, pool.submitted + 1),
                   !.threads = IF @ < max_workers(Len(districts)) THEN @ + 1 ELSE @]
    /\ UNCHANGED <<now, valVars, cacheVars, app_cache_manager, districts, batch,
                   lastResp, lastStored, clears, pOut, workers, fRun, fetchRun>>

\* a free worker thread takes the task at the head of the work queue
TaskStart ==
    /\ batch.phase = "running"
    /\ Len(pool.queue) > 0
    /\ Cardinality(pool.running) < pool.threads
    /\ pool' = [pool EXCEPT !.queue = Tail(@), !.running = @ \cup {Head(pool.queue)}]
    /\ UNCHANGED <<now, valVars, cacheVars, app_cache_manager, districts, batch,
                   lastResp, lastStored, clears, pOut, workers, fRun, fetchRun>>

\* the worker thread of task i is free again: the pool's part of a return
\* from predict_pm25_for_district.  The task whose upstream call never
\* returns stays inside session.get and keeps its worker thread.
TaskReturns(i) ==
    /\ i \in pool.running
    /\ i # pool.stalled
    /\ pool' = [pool EXCEPT !.running = @ \ {i}]

\* a running task returns from predict_pm25_for_district.  The outcomes are
\* kept in the order of the district ids, the order the sort after the loop
\* gives them whatever order they completed in.  The model is not reached by
\* a task that fails at a lookup, so no prediction value is drawn.
TaskDone(i, fail) ==
    /\ batch.phase = "running"
    /\ TaskReturns(i)
    /\ LET r == predict_pm25_for_district(cache_manager, districts[i], batch.key[1],
                    batch.key[2], batch.key[3], batch.key[4], batch.key[5],
                    fail, None, now)
       IN  /\ cache_manager' = r.c
           /\ batch' = [batch EXCEPT
                           !.futures = @ \ {i},
                           !.returned = SortById(Append(@, r.result)),
                           !.lists = [results |-> SortById(Collect(@, r.result).results),
                                      errors |-> SortById(Collect(@, r.result).errors)]]
    /\ UNCHANGED <<now, valVars, prediction_cache, subject, cacheRet, setLog,
                   app_cache_manager, districts, lastResp, lastStored, clears, pOut,
                   workers, fRun, fetchRun>>

NextPool ==
    \/ \E key \in RequestKeys : PredictAllBegin(key)
    \/ PoolSubmit
    \/ TaskStart
    \/ \E i \in 1..PoolDistricts, fail \in PoolFailures : TaskDone(i, fail)
    \/ PredictAllFinish

SpecPool == InitPool /\ [][NextPool]_vars

\* the with block of the executor is left and predict_all_districts goes on
\* to its end: the batch's part of PredictAllFinish
BatchReturns ==
    /\ batch.phase = "running"
    /\ AllCompleted(batch)
    /\ batch' = Idle

\* the pool under fair scheduling, every predictor invocation returning: the
\* request thread goes on submitting and, once every future has completed,
\* returns; a free worker thread takes the next queued task; a running
\* invocation returns
PoolFairness ==
    /\ WF_vars(PoolSubmit)
    /\ WF_vars(TaskStart)
    /\ WF_pool(\E i \in 1..PoolDistricts : TaskReturns(i))
    /\ WF_batch(BatchReturns)

SpecPoolFair == SpecPool /\ PoolFairness

\* Pool runs in which the upstream call of one district task never returns.
\* The stalled task is the first of the batch, which a worker thread takes at
\* once, or the first that waits in the queue of a full pool.
StalledChoices == {0, 1, MAX_WORKERS + 1}

\* the district counts of these runs: none, one, and one more than the pool
\* has workers
StallDistricts == {0, 1, MAX_WORKERS + 1}

InitStall ==
    /\ now = BaseNow
    /\ IdleValidator
    /\ IdleCaches
    /\ app_cache_manager = CacheManagerNew(MAX_CACHE_SIZE)
    /\ districts \in {DistrictList(n) : n \in StallDistricts}
    /\ batch = Idle
    /\ lastResp = [route |-> "none"]
    /\ lastStored = [k \in RequestKeys |-> NoneObj]
    /\ clears = 0
    /\ pOut = NotCalled
    /\ pool \in {[NoPool EXCEPT !.stalled = s] :
                    s \in {c \in StalledChoices : c <= Len(districts)}}
    /\ workers = NoWorkers
    /\ fRun = NotCalled
    /\ fetchRun = NotCalled

\* the scheduling is as fair as in the runs without a stalled task; no return
\* is asked of the stalled task, which TaskReturns leaves out
SpecStall == InitStall /\ [][NextPool]_vars /\ PoolFairness

-----------------------------------------------------------------------------
(* Threads in the caches.  The pool workers of a batch call get and set of  *)
(* the fetcher's CacheManager, and the request threads of the server        *)
(* (threaded=True) call get, set and clear of the PredictionCache, with no  *)
(* lock in either class: a thread switch can fall between any two           *)
(* statements.  Each action below is one statement of cache_manager.py run  *)
(* by thread w; workers[w] holds the call the thread is in, its local       *)
(* variables, the statement it is at, and what its last call returned or    *)
(* raised.                                                                  *)

MaxThreads == 2      \* threads that call into one cache
MaxCalls == 2        \* calls made by one thread
MaxThreadTicks == 1  \* clock steps of a thread run

ThreadKeys == {"k1", "k2"}

\* max_size of the CacheManager the threads share: one less than the keys used
ThreadCapacity == Cardinality(ThreadKeys) - 1

\* the value stored under a key
ValueFor(key) == [v |-> key]

NoReturn == [op |-> "none", key |-> None, raised |-> FALSE, value |-> NoneObj,
             exc |-> None]

\* the call returned value
Ret(op, key, value) ==
    [op |-> op, key |-> key, raised |-> FALSE, value |-> value, exc |-> None]

\* the call ended with an exception
Raise(op, key, exc) ==
    [op |-> op, key |-> key, raised |-> TRUE, value |-> NoneObj, exc |-> exc]

\* a thread that is in no call
IdleWorker ==
    [pc |-> "idle", op |-> "none", key |-> None, ttl |-> 0, timestamp |-> 0,
     rm_key |-> None, after |-> "none", calls |-> 0, ret |-> NoReturn]

threadFrame == <<valVars, subject, cacheRet, setLog, app_cache_manager, districts,
                 batch, lastResp, lastStored, clears, pOut, pool, fRun, fetchRun>>

InitThreads ==
    /\ now = BaseNow
    /\ IdleValidator
    /\ subject \in {"CacheManager", "PredictionCache"}
    /\ cache_manager = CacheManagerNew(ThreadCapacity)
    /\ prediction_cache = PredictionCacheNew(CACHE_TTL_PREDICTION)
    /\ cacheRet = [op |-> "init"]
    /\ setLog = <<>>
    /\ app_cache_manager = CacheManagerNew(MAX_CACHE_SIZE)
    /\ districts = <<>>
    /\ batch = Idle
    /\ lastResp = [route |-> "none"]
    /\ lastStored = [k \in RequestKeys |-> NoneObj]
    /\ clears = 0
    /\ pOut = NotCalled
    /\ pool = NoPool
    /\ workers = [w \in 1..MaxThreads |-> IdleWorker]
    /\ fRun = NotCalled
    /\ fetchRun = NotCalled

At(w, pc) == w \in DOMAIN workers /\ workers[w].pc = pc

\* thread w enters a call
Enter(w, op, key, ttl, pc) ==
    [workers EXCEPT ![w] = [IdleWorker EXCEPT !.pc = pc, !.op = op, !.key = key,
                                              !.ttl = ttl,
                                              !.calls = workers[w].calls + 1]]

\* thread w goes on to the statement pc
Goto(w, pc) == [workers EXCEPT ![w].pc = pc]

\* the call of thread w ends and leaves ret
Leave(w, ret) ==
    [workers EXCEPT ![w] = [IdleWorker EXCEPT !.calls = workers[w].calls,
                                              !.ret = ret]]

\* ---- CacheManager.get(key, ttl)

CM_get_call(w, key, ttl) ==
    /\ subject = "CacheManager"
    /\ At(w, "idle")
    /\ workers[w].calls < MaxCalls
    /\ workers' = Enter(w, "get", key, ttl, "get_25")
    /\ UNCHANGED <<now, cache_manager, prediction_cache, threadFrame>>

\* if key in self.cache:   (else: return None)
CM_get_25(w) ==
    /\ At(w, "get_25")
    /\ workers' = IF DictHas(cache_manager.cache, workers[w].key)
                  THEN Goto(w, "get_26")
                  ELSE Leave(w, Ret("get", workers[w].key, NoneObj))
    /\ UNCHANGED <<now, cache_manager, prediction_cache, threadFrame>>

\* timestamp = self.timestamps.get(key, 0)
CM_get_26(w) ==
    /\ At(w, "get_26")
    /\ workers' = [workers EXCEPT
                      ![w].timestamp = DictGet(cache_manager.timestamps, workers[w].key, 0),
                      ![w].pc = "get_27"]
    /\ UNCHANGED <<now, cache_manager, prediction_cache, threadFrame>>

\* if time.time() - timestamp < ttl:   (else: self._remove(key))
CM_get_27(w) ==
    /\ At(w, "get_27")
    /\ workers' = IF TimeTime(now) - workers[w].timestamp < workers[w].ttl
                  THEN Goto(w, "get_28")
                  ELSE [workers EXCEPT ![w].pc = "remove_51",
                                       ![w].rm_key = workers[w].key,
                                       ![w].after = "get_37"]
    /\ UNCHANGED <<now, cache_manager, prediction_cache, threadFrame>>

\* self.access_count[key] = self.access_count.get(key, 0) + 1
CM_get_28(w) ==
    /\ At(w, "get_28")
    /\ cache_manager' = CM_hit(cache_manager, workers[w].key, now)
    /\ workers' = Goto(w, "get_30")
    /\ UNCHANGED <<now, prediction_cache, threadFrame>>

\* return self.cache[key]: KeyError when the key is no longer there
CM_get_30(w) ==
    /\ At(w, "get_30")
    /\ workers' = IF DictHas(cache_manager.cache, workers[w].key)
                  THEN Leave(w, Ret("get", workers[w].key,
                                    DictGet(cache_manager.cache, workers[w].key, NoneObj)))
                  ELSE Leave(w, Raise("get", workers[w].key, "KeyError"))
    /\ UNCHANGED <<now, cache_manager, prediction_cache, threadFrame>>

\* ---- CacheManager._remove(key), called by get and by _evict_lru

\* self.cache.pop(key, None)
CM_remove_51(w) ==
    /\ At(w, "remove_51")
    /\ cache_manager' = [cache_manager EXCEPT !.cache = DictPop(@, workers[w].rm_key)]
    /\ workers' = Goto(w, "remove_52")
    /\ UNCHANGED <<now, prediction_cache, threadFrame>>

\* self.timestamps.pop(key, None)
CM_remove_52(w) ==
    /\ At(w, "remove_52")
    /\ cache_manager' = [cache_manager EXCEPT
                            !.timestamps = DictPop(@, workers[w].rm_key)]
    /\ workers' = Goto(w, "remove_53")
    /\ UNCHANGED <<now, prediction_cache, threadFrame>>

\* self.access_count.pop(key, None), and back to the caller: get falls
\* through to return None, set goes on to its three assignments
CM_remove_53(w) ==
    /\ At(w, "remove_53")
    /\ cache_manager' = [cache_manager EXCEPT
                            !.access_count = DictPop(@, workers[w].rm_key)]
    /\ workers' = IF workers[w].after = "get_37"
                  THEN Leave(w, Ret("get", workers[w].key, NoneObj))
                  ELSE Goto(w, workers[w].after)
    /\ UNCHANGED <<now, prediction_cache, threadFrame>>

\* ---- CacheManager.set(key, value)

CM_set_call(w, key) ==
    /\ subject = "CacheManager"
    /\ At(w, "idle")
    /\ workers[w].calls < MaxCalls
    /\ workers' = Enter(w, "set", key, 0, "set_42")
    /\ UNCHANGED <<now, cache_manager, prediction_cache, threadFrame>>

\* if len(self.cache) >= self.max_size: self._evict_lru()
CM_set_42(w) ==
    /\ At(w, "set_42")
    /\ workers' = IF Len(cache_manager.cache) >= cache_manager.max_size
                  THEN Goto(w, "evict_57")
                  ELSE Goto(w, "set_45")
    /\ UNCHANGED <<now, cache_manager, prediction_cache, threadFrame>>

\* if not self.cache: return
CM_evict_57(w) ==
    /\ At(w, "evict_57")
    /\ workers' = IF Len(cache_manager.cache) = 0
                  THEN Goto(w, "set_45")
                  ELSE Goto(w, "evict_61")
    /\ UNCHANGED <<now, cache_manager, prediction_cache, threadFrame>>

\* lru_key = min(self.timestamps.items(), key=...)[0]; self._remove(lru_key).
\* min raises ValueError for an empty timestamps dict.
CM_evict_61(w) ==
    /\ At(w, "evict_61")
    /\ workers' = IF Len(cache_manager.timestamps) = 0
                  THEN Leave(w, Raise("set", workers[w].key, "ValueError"))
                  ELSE [workers EXCEPT ![w].pc = "remove_51",
                                       ![w].rm_key = LruKey(cache_manager),
                                       ![w].after = "set_45"]
    /\ UNCHANGED <<now, cache_manager, prediction_cache, threadFrame>>

\* self.cache[key] = value
CM_set_45(w) ==
    /\ At(w, "set_45")
    /\ cache_manager' = [cache_manager EXCEPT
                            !.cache = DictPut(@, workers[w].key, ValueFor(workers[w].key))]
    /\ workers' = Goto(w, "set_46")
    /\ UNCHANGED <<now, prediction_cache, threadFrame>>

\* self.timestamps[key] = time.time()
CM_set_46(w) ==
    /\ At(w, "set_46")
    /\ cache_manager' = [cache_manager EXCEPT
                            !.timestamps = DictPut(@, workers[w].key, TimeTime(now))]
    /\ workers' = Goto(w, "set_47")
    /\ UNCHANGED <<now, prediction_cache, threadFrame>>

\* self.access_count[key] = 0
CM_set_47(w) ==
    /\ At(w, "set_47")
    /\ cache_manager' = [cache_manager EXCEPT
                            !.access_count = DictPut(@, workers[w].key, 0)]
    /\ workers' = Leave(w, Ret("set", workers[w].key, NoneObj))
    /\ UNCHANGED <<now, prediction_cache, threadFrame>>

\* ---- PredictionCache.get(year, month, day, hour, minute)

PC_get_call(w, key) ==
    /\ subject = "PredictionCache"
    /\ At(w, "idle")
    /\ workers[w].calls < MaxCalls
    /\ workers' = Enter(w, "get", PC_generate_key(key[1], key[2], key[3], key[4], key[5]),
                        prediction_cache.ttl, "pget_101")
    /\ UNCHANGED <<now, cache_manager, prediction_cache, threadFrame>>

\* if key in self.cache:   (else: return None)
PC_get_101(w) ==
    /\ At(w, "pget_101")
    /\ workers' = IF DictHas(prediction_cache.cache, workers[w].key)
                  THEN Goto(w, "pget_102")
                  ELSE Leave(w, Ret("get", workers[w].key, NoneObj))
    /\ UNCHANGED <<now, cache_manager, prediction_cache, threadFrame>>

\* timestamp = self.timestamps.get(key, 0)
PC_get_102(w) ==
    /\ At(w, "pget_102")
    /\ workers' = [workers EXCEPT
                      ![w].timestamp = DictGet(prediction_cache.timestamps,
                                               workers[w].key, 0),
                      ![w].pc = "pget_103"]
    /\ UNCHANGED <<now, cache_manager, prediction_cache, threadFrame>>

\* if time.time() - timestamp < self.ttl:
PC_get_103(w) ==
    /\ At(w, "pget_103")
    /\ workers' = IF TimeTime(now) - workers[w].timestamp < prediction_cache.ttl
                  THEN Goto(w, "pget_105")
                  ELSE Goto(w, "pget_108")
    /\ UNCHANGED <<now, cache_manager, prediction_cache, threadFrame>>

\* return self.cache[key]: KeyError when the key is no longer there
PC_get_105(w) ==
    /\ At(w, "pget_105")
    /\ workers' = IF DictHas(prediction_cache.cache, workers[w].key)
                  THEN Leave(w, Ret("get", workers[w].key,
                                    DictGet(prediction_cache.cache, workers[w].key,
                                            NoneObj)))
                  ELSE Leave(w, Raise("get", workers[w].key, "KeyError"))
    /\ UNCHANGED <<now, cache_manager, prediction_cache, threadFrame>>

\* del self.cache[key]: KeyError when the key is no longer there
PC_get_108(w) ==
    /\ At(w, "pget_108")
    /\ IF DictHas(prediction_cache.cache, workers[w].key)
       THEN /\ prediction_cache' = [prediction_cache EXCEPT
                                       !.cache = DictPop(@, workers[w].key)]
            /\ workers' = Goto(w, "pget_109")
       ELSE /\ workers' = Leave(w, Raise("get", workers[w].key, "KeyError"))
            /\ UNCHANGED prediction_cache
    /\ UNCHANGED <<now, cache_manager, threadFrame>>

\* del self.timestamps[key]: KeyError when the key is no longer there; then
\* return None
PC_get_109(w) ==
    /\ At(w, "pget_109")
    /\ IF DictHas(prediction_cache.timestamps, workers[w].key)
       THEN /\ prediction_cache' = [prediction_cache EXCEPT
                                       !.timestamps = DictPop(@, workers[w].key)]
            /\ workers' = Leave(w, Ret("get", workers[w].key, NoneObj))
       ELSE /\ workers' = Leave(w, Raise("get", workers[w].key, "KeyError"))
            /\ UNCHANGED prediction_cache
    /\ UNCHANGED <<now, cache_manager, threadFrame>>

\* ---- PredictionCache.set(year, month, day, hour, minute, result)

PC_set_call(w, key) ==
    /\ subject = "PredictionCache"
    /\ At(w, "idle")
    /\ workers[w].calls < MaxCalls
    /\ workers' = Enter(w, "set", PC_generate_key(key[1], key[2], key[3], key[4], key[5]),
                        0, "pset_118")
    /\ UNCHANGED <<now, cache_manager, prediction_cache, threadFrame>>

\* self.cache[key] = result
PC_set_118(w) ==
    /\ At(w, "pset_118")
    /\ prediction_cache' = [prediction_cache EXCEPT
                               !.cache = DictPut(@, workers[w].key,
                                                 ValueFor(workers[w].key))]
    /\ workers' = Goto(w, "pset_119")
    /\ UNCHANGED <<now, cache_manager, threadFrame>>

\* self.timestamps[key] = time.time()
PC_set_119(w) ==
    /\ At(w, "pset_119")
    /\ prediction_cache' = [prediction_cache EXCEPT
                               !.timestamps = DictPut(@, workers[w].key, TimeTime(now))]
    /\ workers' = Leave(w, Ret("set", workers[w].key, NoneObj))
    /\ UNCHANGED <<now, cache_manager, threadFrame>>

\* ---- PredictionCache.clear()

PC_clear_call(w) ==
    /\ subject = "PredictionCache"
    /\ At(w, "idle")
    /\ workers[w].calls < MaxCalls
    /\ workers' = Enter(w, "clear", None, 0, "pclear_125")
    /\ UNCHANGED <<now, cache_manager, prediction_cache, threadFrame>>

\* self.cache.clear()
PC_clear_125(w) ==
    /\ At(w, "pclear_125")
    /\ prediction_cache' = [prediction_cache EXCEPT !.cache = EmptyDict]
    /\ workers' = Goto(w, "pclear_126")
    /\ UNCHANGED <<now, cache_manager, threadFrame>>

\* self.timestamps.clear()
PC_clear_126(w) ==
    /\ At(w, "pclear_126")
    /\ prediction_cache' = [prediction_cache EXCEPT !.timestamps = EmptyDict]
    /\ workers' = Leave(w, Ret("clear", None, NoneObj))
    /\ UNCHANGED <<now, cache_manager, threadFrame>>

\* the clock advances by the TTL while threads are anywhere in their calls
ThreadTick ==
    /\ now < BaseNow + MaxThreadTicks * CACHE_TTL_PREDICTION
    /\ now' = now + CACHE_TTL_PREDICTION
    /\ UNCHANGED <<cache_manager, prediction_cache, workers, threadFrame>>

NextThreads ==
    \/ \E w \in 1..MaxThreads, key \in ThreadKeys : CM_get_call(w, key, ForecastTtl)
    \/ \E w \in 1..MaxThreads : CM_get_25(w)
    \/ \E w \in 1..MaxThreads : CM_get_26(w)
    \/ \E w \in 1..MaxThreads : CM_get_27(w)
    \/ \E w \in 1..MaxThreads : CM_get_28(w)
    \/ \E w \in 1..MaxThreads : CM_get_30(w)
    \/ \E w \in 1..MaxThreads : CM_remove_51(w)
    \/ \E w \in 1..MaxThreads : CM_remove_52(w)
    \/ \E w \in 1..MaxThreads : CM_remove_53(w)
    \/ \E w \in 1..MaxThreads, key \in ThreadKeys : CM_set_call(w, key)
    \/ \E w \in 1..MaxThreads : CM_set_42(w)
    \/ \E w \in 1..MaxThreads : CM_evict_57(w)
    \/ \E w \in 1..MaxThreads : CM_evict_61(w)
    \/ \E w \in 1..MaxThreads : CM_set_45(w)
    \/ \E w \in 1..MaxThreads : CM_set_46(w)
    \/ \E w \in 1..MaxThreads : CM_set_47(w)
    \/ \E w \in 1..MaxThreads, key \in RequestKeys : PC_get_call(w, key)
    \/ \E w \in 1..MaxThreads : PC_get_101(w)
    \/ \E w \in 1..MaxThreads : PC_get_102(w)
    \/ \E w \in 1..MaxThreads : PC_get_103(w)
    \/ \E w \in 1..MaxThreads : PC_get_105(w)
    \/ \E w \in 1..MaxThreads : PC_get_108(w)
    \/ \E w \in 1..MaxThreads : PC_get_109(w)
    \/ \E w \in 1..MaxThreads, key \in RequestKeys : PC_set_call(w, key)
    \/ \E w \in 1..MaxThreads : PC_set_118(w)
    \/ \E w \in 1..MaxThreads : PC_set_119(w)
    \/ \E w \in 1..MaxThreads : PC_clear_call(w)
    \/ \E w \in 1..MaxThreads : PC_clear_125(w)
    \/ \E w \in 1..MaxThreads : PC_clear_126(w)
    \/ ThreadTick

SpecThreads == InitThreads /\ [][NextThreads]_vars

-----------------------------------------------------------------------------
(* Concurrent batch requests.  The request threads of the server each run   *)
(* predict_all_districts once, for the same request key, with no lock and   *)
(* no record of a batch in progress.  batch[r] holds the local variables of *)
(* request thread r (info, start_time, futures, results, errors,            *)
(* success_wrapped, and the response returned); its calls of                *)
(* prediction_cache.get and prediction_cache.set run statement by statement *)
(* as above, with workers[r] the frame of the call.  lastStored[key] is     *)
(* what the statement self.cache[key] = result stored when it last ran, and *)
(* the thread that ran it.  The requests overlap within one reading of the  *)
(* clock.                                                                   *)

\* the request key the threads send
SameKey == <<2025, 11, 25, 9, 30>>

requestFrame == <<valVars, subject, cacheRet, setLog, app_cache_manager, districts,
                  lastResp, clears, pOut, pool, fRun, fetchRun>>

InitRequests ==
    /\ now = BaseNow
    /\ IdleValidator
    /\ subject = "PredictionCache"
    /\ cache_manager = CacheManagerNew(max_size_default)
    /\ prediction_cache = PredictionCacheNew(CACHE_TTL_PREDICTION)
    /\ cacheRet = [op |-> "init"]
    /\ setLog = <<>>
    /\ app_cache_manager = CacheManagerNew(MAX_CACHE_SIZE)
    /\ districts \in {DistrictList(n) : n \in 0..MaxDistricts}
    /\ batch = [r \in 1..MaxThreads |-> Idle]
    /\ lastResp = [route |-> "none"]
    /\ lastStored = [k \in RequestKeys |-> NoneObj]
    /\ clears = 0
    /\ pOut = NotCalled
    /\ pool = NoPool
    /\ workers = [w \in 1..MaxThreads |-> IdleWorker]
    /\ fRun = NotCalled
    /\ fetchRun = NotCalled

\* the request has ended with the response resp
Answered(b, missed, resp) ==
    [phase |-> "done", key |-> b.key, missed |-> missed, resp |-> resp]

\* predict_all_districts of thread r up to the call of prediction_cache.get:
\* the request is rejected, or the thread enters get
RequestBegin(r, key) ==
    /\ batch[r] = Idle
    /\ At(r, "idle")
    /\ LET v == validate_prediction_request(now, key[1], key[2], key[3], key[4], key[5])
       IN  IF ~v.is_valid
           THEN /\ batch' = [batch EXCEPT ![r] =
                                Answered([key |-> key], FALSE,
                                         error_response(v.error_code, v.info, 400, now))]
                /\ UNCHANGED workers
           ELSE /\ batch' = [batch EXCEPT ![r] =
                                [phase |-> "get", key |-> key, info |-> v.info,
                                 start_time |-> TimeTime(now)]]
                /\ workers' = Enter(r, "get",
                                    PC_generate_key(key[1], key[2], key[3], key[4], key[5]),
                                    prediction_cache.ttl, "pget_101")
    /\ UNCHANGED <<now, cache_manager, prediction_cache, lastStored, requestFrame>>

\* get has returned to thread r: an exception of get ends the request in the
\* handler of Exception, a cached result is returned as it is, and on a miss
\* the district tasks are submitted
RequestDispatch(r) ==
    /\ batch[r].phase = "get"
    /\ At(r, "idle")
    /\ LET b == batch[r]
           ret == workers[r].ret
       IN  batch' = [batch EXCEPT ![r] =
               IF ret.raised
               THEN Answered(b, FALSE, error_response("INTERNAL_ERROR",
                                           [error_type |-> ret.exc], 500, now))
               ELSE IF ret.value # NoneObj
               THEN Answered(b, FALSE, [status |-> 200, body |-> ret.value])
               ELSE [phase |-> "running", key |-> b.key, info |-> b.info,
                     start_time |-> b.start_time,
                     first |-> lastStored[b.key] = NoneObj,
                     futures |-> 1..Len(districts),
                     returned |-> <<>>,
                     lists |-> [results |-> <<>>, errors |-> <<>>]]]
    /\ UNCHANGED <<now, cache_manager, prediction_cache, workers, lastStored, requestFrame>>

\* one district task of the batch of thread r runs predict_pm25_for_district,
\* and the as_completed loop of r files what it returned
RequestTask(r, i, fail, pred) ==
    /\ batch[r].phase = "running"
    /\ i \in batch[r].futures
    /\ LET b == batch[r]
           res == predict_pm25_for_district(cache_manager, districts[i], b.key[1],
                      b.key[2], b.key[3], b.key[4], b.key[5], fail, pred, now)
       IN  /\ cache_manager' = res.c
           /\ batch' = [batch EXCEPT ![r].futures = @ \ {i},
                                     ![r].returned = Append(@, res.result),
                                     ![r].lists = Collect(@, res.result)]
    /\ UNCHANGED <<now, prediction_cache, workers, lastStored, requestFrame>>

\* every task of thread r has completed: sort, statistics, response, and the
\* thread enters prediction_cache.set; ZeroDivisionError for an empty
\* district list
RequestFinish(r) ==
    /\ batch[r].phase = "running"
    /\ AllCompleted(batch[r])
    /\ LET b == batch[r]
           results == SortById(b.lists.results)
           errors == SortById(b.lists.errors)
           expected == Len(districts)
           failed == Len(errors)
       IN  IF expected = 0
           THEN /\ batch' = [batch EXCEPT ![r] =
                                Answered(b, TRUE, error_response("INTERNAL_ERROR",
                                    [error_type |-> "ZeroDivisionError"], 500, now))]
                /\ UNCHANGED workers
           ELSE LET statistics == Statistics(results, expected, failed)
                    response_data == ResponseData(b.info, results, errors, statistics,
                                         TimeTime(now) - b.start_time, expected)
                IN  /\ batch' = [batch EXCEPT ![r] =
                                    [phase |-> "set", key |-> b.key, first |-> b.first,
                                     returned |-> b.returned,
                                     response_data |-> response_data,
                                     success_wrapped |->
                                         success_response(response_data, "ok", now).body]]
                    /\ workers' = Enter(r, "set",
                                        PC_generate_key(b.key[1], b.key[2], b.key[3],
                                                        b.key[4], b.key[5]),
                                        0, "store_118")
    /\ UNCHANGED <<now, cache_manager, prediction_cache, lastStored, requestFrame>>

\* self.cache[key] = result, with the response of thread r
Store_118(r) ==
    /\ At(r, "store_118")
    /\ prediction_cache' = [prediction_cache EXCEPT
                               !.cache = DictPut(@, workers[r].key,
                                                 batch[r].success_wrapped)]
    /\ lastStored' = [lastStored EXCEPT ![batch[r].key] =
                         [resp |-> batch[r].success_wrapped, at |-> TimeTime(now),
                          cleared |-> FALSE, by |-> r]]
    /\ workers' = Goto(r, "pset_119")
    /\ UNCHANGED <<now, cache_manager, batch, requestFrame>>

\* set has returned to thread r: return success_response(...)
RequestReturn(r) ==
    /\ batch[r].phase = "set"
    /\ At(r, "idle")
    /\ LET b == batch[r]
       IN  batch' = [batch EXCEPT ![r] =
               [phase |-> "done", key |-> b.key, missed |-> TRUE, first |-> b.first,
                returned |-> b.returned, success_wrapped |-> b.success_wrapped,
                resp |-> success_response(b.response_data, "ok", now)]]
    /\ UNCHANGED <<now, cache_manager, prediction_cache, workers, lastStored, requestFrame>>

NextRequests ==
    \/ \E r \in 1..MaxThreads : RequestBegin(r, SameKey)
    \/ \E r \in 1..MaxThreads : PC_get_101(r)
    \/ \E r \in 1..MaxThreads : PC_get_102(r)
    \/ \E r \in 1..MaxThreads : PC_get_103(r)
    \/ \E r \in 1..MaxThreads : PC_get_105(r)
    \/ \E r \in 1..MaxThreads : PC_get_108(r)
    \/ \E r \in 1..MaxThreads : PC_get_109(r)
    \/ \E r \in 1..MaxThreads : RequestDispatch(r)
    \/ \E r \in 1..MaxThreads, i \in 1..MaxDistricts,
          fail \in BatchFailures \cup {NoFailure}, pred \in PredValues :
          RequestTask(r, i, fail, pred)
    \/ \E r \in 1..MaxThreads : RequestFinish(r)
    \/ \E r \in 1..MaxThreads : Store_118(r)
    \/ \E r \in 1..MaxThreads : PC_set_119(r)
    \/ \E r \in 1..MaxThreads : RequestReturn(r)

SpecRequests == InitRequests /\ [][NextRequests]_vars

-----------------------------------------------------------------------------
(* Properties of the validator.                                             *)

Returned == vOut # NotCalled

Outcome == IF vOut.is_valid THEN "valid" ELSE vOut.error_code

\* C3: for a fixed clock and any target instant the validator yields exactly
\* one of FUTURE_TIME, TIME_TOO_RECENT, TIME_TOO_OLD or valid; the outcome is
\* that of the first rule, in the order 1, 2, 3, which the target matches
\* (valid when none matches), and it is valid exactly when no code is given.
C3_FirstMatchWins ==
    Returned =>
        /\ Outcome \in {"FUTURE_TIME", "TIME_TOO_RECENT", "TIME_TOO_OLD", "valid"}
        /\ vOut.is_valid <=> (vOut.error_code = None)
        /\ LET m1 == vTarget > now
               m2 == vTarget > now - 30 * 60
               m3 == vTarget < now - 90 * 24 * 3600
           IN  /\ m1 => Outcome = "FUTURE_TIME"
               /\ (~m1 /\ m2) => Outcome = "TIME_TOO_RECENT"
               /\ (~m1 /\ ~m2 /\ m3) => Outcome = "TIME_TOO_OLD"
               /\ (~m1 /\ ~m2 /\ ~m3) => Outcome = "valid"

\* a target that matches both rule 1 and rule 2 was rejected as FUTURE_TIME
C3_Witness ==
    /\ Returned
    /\ vTarget > now
    /\ vTarget > now - 30 * 60
    /\ Outcome = "FUTURE_TIME"

\* C4: the outcome is decided by these intervals around the clock: FUTURE_TIME
\* iff target > now; TIME_TOO_RECENT iff now - 30 min < target <= now;
\* TIME_TOO_OLD iff target < now - 90 days; valid iff now - 90 days <= target
\* <= now - 30 min; and the four scenario points of the specification fall
\* where it says.
C4_Intervals ==
    Returned =>
        /\ Outcome = "FUTURE_TIME" <=> vTarget > now
        /\ Outcome = "TIME_TOO_RECENT" <=>
               (now - 30 * 60 < vTarget /\ vTarget <= now)
        /\ Outcome = "TIME_TOO_OLD" <=> vTarget < now - 90 * 86400
        /\ Outcome = "valid" <=>
               (now - 90 * 86400 <= vTarget /\ vTarget <= now - 30 * 60)
        /\ vTarget = now - 45 * 60 => Outcome = "valid"
        /\ vTarget = now + 5 * 60 => Outcome = "FUTURE_TIME"
        /\ vTarget = now - 10 * 60 => Outcome = "TIME_TOO_RECENT"
        /\ vTarget = now - 100 * 86400 => Outcome = "TIME_TOO_OLD"

\* the inclusive upper bound of the valid interval was accepted
C4_Witness ==
    /\ Returned
    /\ vTarget = now - 30 * 60
    /\ Outcome = "valid"

\* the inclusive lower bound of the valid interval was accepted
C4_WitnessOldest ==
    /\ Returned
    /\ vTarget = now - 90 * 86400
    /\ Outcome = "valid"

\* C5: an accepted request returns the window descriptor with prediction_for
\* = target + 1 hour and data_from = {t-2: target - 2 h, t-1: target - 1 h,
\* t-0: target}, each printed as its civil date and time; a rejected request
\* returns an error code and details that hold no window descriptor.
C5_WindowInfo ==
    Returned =>
        /\ vOut.is_valid =>
               /\ vOut.info.prediction_for = Strftime(vTarget + 3600)
               /\ vOut.info.data_from = [t2 |-> Strftime(vTarget - 7200),
                                         t1 |-> Strftime(vTarget - 3600),
                                         t0 |-> Strftime(vTarget)]
               /\ vOut.info.data_from.t0 = vReq
               /\ vOut.info.target_time = vReq
        /\ ~vOut.is_valid =>
               /\ vOut.error_code \in {"FUTURE_TIME", "TIME_TOO_RECENT", "TIME_TOO_OLD"}
               /\ "target_time" \in DOMAIN vOut.info
               /\ "prediction_for" \notin DOMAIN vOut.info
               /\ "data_from" \notin DOMAIN vOut.info

\* an accepted request whose prediction hour falls on the next calendar day
C5_Witness ==
    /\ Returned
    /\ vOut.is_valid
    /\ vReq = <<2025, 11, 24, 23, 30>>
    /\ vOut.info.prediction_for = <<2025, 11, 25, 0, 30>>
    /\ vOut.info.data_from.t2 = <<2025, 11, 24, 21, 30>>

-----------------------------------------------------------------------------
(* Properties of the caches.                                                *)

OnBounded == subject = "CacheManager"
OnResult == subject = "PredictionCache"

\* the (access_count, timestamp) pair of key k in cache c is not above that of j
PairAtMost(c, k, j) ==
    LET ck == DictGet(c.access_count, k, 0)
        cj == DictGet(c.access_count, j, 0)
        tk == DictGet(c.timestamps, k, 0)
        tj == DictGet(c.timestamps, j, 0)
    IN  ck < cj \/ (ck = cj /\ tk <= tj)

\* what a get step of the bounded cache must do
C6_GetStep ==
    (OnBounded /\ cacheRet'.op = "get") =>
        LET key == cacheRet'.key
            ttl == cacheRet'.ttl
            c == cache_manager
            c2 == cache_manager'
            present == key \in DictKeys(c.cache)
            age == (now - 7 * 3600) - DictGet(c.timestamps, key, 0)
        IN  /\ (cacheRet'.ret # NoneObj) <=> (present /\ age < ttl)
            /\ (present /\ age < ttl) =>
                   /\ cacheRet'.ret = DictGet(c.cache, key, NoneObj)
                   /\ c2.cache = c.cache
                   /\ c2.timestamps = c.timestamps
                   /\ (now' - 7 * 3600) - DictGet(c2.timestamps, key, 0) < ttl
            /\ (present /\ age >= ttl) =>
                   /\ key \notin DictKeys(c2.cache)
                   /\ key \notin DictKeys(c2.timestamps)
                   /\ key \notin DictKeys(c2.access_count)
                   /\ DictKeys(c2.cache) = DictKeys(c.cache) \ {key}
            /\ ~present => c2 = c

\* the timestamp of an entry is that of the most recent set of its key
C6_StampStep ==
    OnBounded =>
        /\ cacheRet'.op = "set" =>
               DictGet(cache_manager'.timestamps, cacheRet'.key, 0) = now - 7 * 3600
        /\ \A k \in DictKeys(cache_manager.cache) \cap DictKeys(cache_manager'.cache) :
               (cacheRet'.op = "set" /\ cacheRet'.key = k)
               \/ DictGet(cache_manager'.timestamps, k, 0)
                      = DictGet(cache_manager.timestamps, k, 0)

\* C6: get(key, ttl) returns the stored value iff the key is present and the
\* time since the most recent set of the key is below ttl; a hit leaves the
\* timestamp as it was; at an age of ttl or more get returns a miss and
\* removes the entry, so a returned entry is never older than the ttl passed.
C6_GetHonoursTtl == [][C6_GetStep /\ C6_StampStep]_vars

\* a get returned an entry set at an earlier clock, and its timestamp is still
\* that of the set
C6_Witness ==
    /\ OnBounded
    /\ cacheRet.op = "get"
    /\ cacheRet.ret # NoneObj
    /\ now = BaseNow + TickSeconds
    /\ DictGet(cache_manager.timestamps, cacheRet.key, 0) = BaseNow - 7 * 3600
    /\ DictGet(cache_manager.access_count, cacheRet.key, 0) = 1

\* the step is the set of the (Capacity + 1)-th distinct key since the cache
\* was empty
LastInsertStep ==
    /\ OnBounded
    /\ cacheRet'.op = "set"
    /\ Len(setLog) = Capacity
    /\ Cardinality({setLog[i] : i \in 1..Len(setLog)}) = Capacity
    /\ cacheRet'.key \notin {setLog[i] : i \in 1..Len(setLog)}

\* the set evicts exactly one entry, one whose (access_count, timestamp) pair
\* is lowest, and the other Capacity keys stay retrievable within their TTL
EvictsLowest ==
    LET c == cache_manager
        c2 == cache_manager'
        inserted == {setLog[i] : i \in 1..Len(setLog)}
    IN  \E victim \in DictKeys(c.cache) :
            /\ \A j \in DictKeys(c.cache) : PairAtMost(c, victim, j)
            /\ DictKeys(c2.cache) = (inserted \ {victim}) \cup {cacheRet'.key}
            /\ Len(c2.cache) = Capacity
            /\ \A k \in inserted \ {victim} : \A ttl \in CacheTtls :
                   (now - 7 * 3600) - DictGet(c.timestamps, k, 0) < ttl =>
                       /\ CM_get(c2, k, ttl, now).ret = DictGet(c.cache, k, NoneObj)
                       /\ CM_get(c2, k, ttl, now).ret # NoneObj

\* C7 as stated: from an empty cache of capacity C, the set of the (C + 1)-th
\* distinct key, with any gets in between, evicts exactly one entry, the one
\* with the lowest (access_count, timestamp) pair, and all others stay
\* retrievable.
C7_AsStated == [][LastInsertStep => EvictsLowest]_vars

\* C7 as amended: the same, when no get in between found an entry expired
\* (the cache still holds the C keys inserted so far).
C7_EvictsLowestWhenFull ==
    [][(LastInsertStep /\ Len(cache_manager.cache) = Capacity) => EvictsLowest]_vars

\* three keys were inserted and the second was evicted, the first having a hit
C7_Witness ==
    /\ OnBounded
    /\ cacheRet.op = "set"
    /\ Len(setLog) = Capacity + 1
    /\ Cardinality({setLog[i] : i \in 1..Len(setLog)}) = Capacity + 1
    /\ cacheRet.key = setLog[Capacity + 1]
    /\ setLog[2] \notin DictKeys(cache_manager.cache)
    /\ setLog[1] \in DictKeys(cache_manager.cache)
    /\ DictGet(cache_manager.access_count, setLog[1], 0) = 1
    /\ Len(cache_manager.cache) = Capacity

\* the cache object of the run, whichever class it is
SubjectCache == IF OnBounded THEN cache_manager ELSE prediction_cache

\* a clear step empties the cache, so that every get misses
ClearEmpties ==
    /\ Len(SubjectCache'.cache) = 0
    /\ Len(SubjectCache'.timestamps) = 0
    /\ OnBounded => Len(cache_manager'.access_count) = 0
    /\ OnBounded => \A k \in CacheKeys, ttl \in CacheTtls :
           CM_get(cache_manager', k, ttl, now').ret = NoneObj
    /\ OnResult => \A k \in ResultKeys :
           PC_get(prediction_cache', k[1], k[2], k[3], k[4], k[5], now').ret = NoneObj

ResultGetStep == OnResult /\ cacheRet'.op = "get"

\* a response was set for the key and the most recent set is younger than the TTL
SetWithinTtl(key) ==
    /\ lastStored[key] # NoneObj
    /\ TimeTime(now) - lastStored[key].at < prediction_cache.ttl

\* the get returns the response of the most recent set of its key, the entry
\* and the TTL stay as they are
ResultHit(key) ==
    /\ cacheRet'.ret # NoneObj
    /\ cacheRet'.ret = lastStored[key].resp
    /\ prediction_cache' = prediction_cache

\* the get returns a miss, no entry of the key is left, the others are kept
ResultMiss(key) ==
    LET k == PC_generate_key(key[1], key[2], key[3], key[4], key[5])
    IN  /\ cacheRet'.ret = NoneObj
        /\ ~DictHas(prediction_cache'.cache, k)
        /\ ~DictHas(prediction_cache'.timestamps, k)
        /\ prediction_cache'.cache = DictPop(prediction_cache.cache, k)
        /\ prediction_cache'.timestamps = DictPop(prediction_cache.timestamps, k)
        /\ prediction_cache'.ttl = prediction_cache.ttl

\* a set overwrites the entry of its key, restarts its TTL and leaves the
\* entries of the other keys as they were
ResultSetStep ==
    (OnResult /\ cacheRet'.op = "set") =>
        LET key == cacheRet'.key
            k == PC_generate_key(key[1], key[2], key[3], key[4], key[5])
        IN  /\ DictGet(prediction_cache'.cache, k, NoneObj) = cacheRet'.value
            /\ DictGet(prediction_cache'.timestamps, k, 0) = TimeTime(now)
            /\ DictPop(prediction_cache'.cache, k) = DictPop(prediction_cache.cache, k)
            /\ DictPop(prediction_cache'.timestamps, k)
                   = DictPop(prediction_cache.timestamps, k)
            /\ prediction_cache'.ttl = prediction_cache.ttl

\* C20 as stated: get returns the stored response if and only if a response
\* was set under the same five fields and the most recent set of the key is
\* younger than the TTL fixed at construction; otherwise it returns a miss.
C20_AsStated ==
    [][ResultGetStep =>
           IF SetWithinTtl(cacheRet'.key) THEN ResultHit(cacheRet'.key)
           ELSE ResultMiss(cacheRet'.key)]_vars

\* C20 as amended: get returns the response of the most recent set of the
\* key if and only if there was one, it is younger than the TTL fixed at
\* construction and clear() has not run since; otherwise get returns a miss
\* and no entry of the key is left.  set overwrites the entry of its key,
\* restarts its TTL and leaves the entries under other keys as they were.
C20_ResultCacheSemantics ==
    [][/\ ResultGetStep =>
             IF SetWithinTtl(cacheRet'.key) /\ ~lastStored[cacheRet'.key].cleared
             THEN ResultHit(cacheRet'.key)
             ELSE ResultMiss(cacheRet'.key)
       /\ ResultSetStep]_vars

\* after two clock steps a get returned the response that was set one step
\* before, under the longer TTL, while both keys were stored
C20_Witness ==
    /\ OnResult
    /\ cacheRet.op = "get"
    /\ cacheRet.ret # NoneObj
    /\ cacheRet.ret = lastStored[cacheRet.key].resp
    /\ TimeTime(now) - lastStored[cacheRet.key].at = TickSeconds
    /\ now = BaseNow + 2 * TickSeconds
    /\ Len(prediction_cache.cache) = Cardinality(ResultKeys)

\* a set step of the bounded cache
BoundedSetStep == OnBounded /\ cacheRet'.op = "set"

\* C34: after every set(key, value) of the bounded cache the key holds the
\* value with access_count 0 and the time of the set as timestamp, whether
\* the key is new or was present, whatever hits and age it had.
C34_SetResets ==
    [][BoundedSetStep =>
          /\ DictGet(cache_manager'.cache, cacheRet'.key, NoneObj) = cacheRet'.value
          /\ DictGet(cache_manager'.access_count, cacheRet'.key, NoneObj) = 0
          /\ DictGet(cache_manager'.timestamps, cacheRet'.key, NoneObj) = TimeTime(now)]_vars

\* k1 was set again after a clock step, in a run that set a key twice: it
\* has no hits and the timestamp of this set, while k2, set before the
\* clock step, has a hit
C34_Witness ==
    /\ OnBounded
    /\ cacheRet.op = "set"
    /\ cacheRet.key = "k1"
    /\ setLog = Void
    /\ now > BaseNow
    /\ DictKeys(cache_manager.cache) = {"k1", "k2"}
    /\ DictGet(cache_manager.access_count, "k1", NoneObj) = 0
    /\ DictGet(cache_manager.timestamps, "k1", NoneObj) = TimeTime(now)
    /\ DictGet(cache_manager.access_count, "k2", NoneObj) = 1
    /\ DictGet(cache_manager.timestamps, "k2", NoneObj) = TimeTime(BaseNow)

\* the keys a set step removed from the bounded cache
Removed == DictKeys(cache_manager.cache) \ DictKeys(cache_manager'.cache)

\* the entry of key k is younger than the shortest TTL entries are read with
WithinTtl(c, k) == TimeTime(now) - DictGet(c.timestamps, k, 0) < CACHE_TTL_AIR

\* C35 as stated: a set removes an entry only when the insertion would
\* otherwise bring the number of entries above max_size; below capacity
\* nothing is removed, and a set of a key that is present removes no other
\* entry that is within its TTL, even when the cache is full.
C35_AsStated ==
    [][BoundedSetStep =>
          LET c == cache_manager
              present == DictHas(c.cache, cacheRet'.key)
          IN  /\ Len(c.cache) < c.max_size => Removed = {}
              /\ present => \A k \in Removed : ~WithinTtl(c, k)]_vars

\* what the code does: a set evicts when the cache is full, whether or not
\* its key is present; below capacity nothing is removed, and at capacity
\* the key of least (access_count, timestamp) is evicted before the
\* insertion, so that it is removed unless it is the key being set
C35_EvictsWhenFull ==
    [][BoundedSetStep =>
          LET c == cache_manager
          IN  /\ Len(c.cache) < c.max_size => Removed = {}
              /\ Len(c.cache) >= c.max_size => Removed = {LruKey(c)} \ {cacheRet'.key}]_vars

\* the entry of key k in the result cache has outlived the TTL
ResultExpired(p, k) == TimeTime(now) - DictGet(p.timestamps, k, 0) >= p.ttl

\* C36 as stated: every entry of the result cache is removed once its TTL
\* has elapsed, so that in every reachable state the cache holds no entry
\* older than the TTL, whether or not the expired key is requested again.
C36_AsStated ==
    OnResult => \A k \in DictKeys(prediction_cache.cache) :
                    ~ResultExpired(prediction_cache, k)

\* what the code does: an entry leaves the result cache only in a get of its
\* own key that finds it expired, or in a clear; the passing of time and the
\* operations on other keys remove nothing
C36_RemovedOnlyOnGet ==
    [][\A k \in DictKeys(prediction_cache.cache) \ DictKeys(prediction_cache'.cache) :
          \/ cacheRet'.op = "clear"
          \/ /\ cacheRet'.op = "get"
             /\ PC_generate_key(cacheRet'.key[1], cacheRet'.key[2], cacheRet'.key[3],
                                cacheRet'.key[4], cacheRet'.key[5]) = k
             /\ ResultExpired(prediction_cache, k)]_vars

\* two clock steps after its set an entry is still held, twice the TTL old,
\* while the other key was requested
C36_Leftover ==
    /\ OnResult
    /\ prediction_cache.ttl = CACHE_TTL_PREDICTION
    /\ cacheRet.op = "get"
    /\ Len(prediction_cache.cache) = 1
    /\ \E k \in DictKeys(prediction_cache.cache) :
          /\ TimeTime(now) - DictGet(prediction_cache.timestamps, k, 0)
                >= 2 * prediction_cache.ttl
          /\ PC_generate_key(cacheRet.key[1], cacheRet.key[2], cacheRet.key[3],
                             cacheRet.key[4], cacheRet.key[5]) # k

\* C37: in single-threaded use, after any sequence of get, set and clear on
\* a bounded cache of max_size >= 1 the number of entries is at most
\* max_size, and a set of a new key into a full cache leaves exactly
\* max_size entries.
C37_SizeBound ==
    /\ [](OnBounded => /\ cache_manager.max_size >= 1
                       /\ Len(cache_manager.cache) <= cache_manager.max_size)
    /\ [][BoundedSetStep /\ Len(cache_manager.cache) = cache_manager.max_size
                         /\ ~DictHas(cache_manager.cache, cacheRet'.key)
             => Len(cache_manager'.cache) = cache_manager.max_size]_vars

\* k3 was set as a new key into the cache full of k1 and k2; k1 was evicted
C37_Witness ==
    /\ OnBounded
    /\ cacheRet.op = "set"
    /\ cacheRet.key = "k3"
    /\ setLog = <<"k1", "k2", "k3">>
    /\ DictKeys(cache_manager.cache) = {"k2", "k3"}
    /\ Len(cache_manager.cache) = cache_manager.max_size

-----------------------------------------------------------------------------
(* Properties of the district predictor.                                    *)

PredictorReturned == pOut # NotCalled /\ pOut.runs > 0

NonFetchStages == {"features", "columns", "scaler", "model"}

\* C10: predict_pm25_for_district never raises: whatever fails (a snapshot
\* fetch, feature construction, the scaler or the model), it returns a
\* result whose status is "error" and which carries the district's id and
\* name, the error message and the error type; without a failure it returns
\* a success result.
C10_NeverRaises ==
    PredictorReturned =>
        LET r == pOut.result
        IN  /\ r.status \in {"success", "error"}
            /\ r.id = pOut.district.id
            /\ r.name = pOut.district.name
            /\ r.status = "error" =>
                   /\ pOut.fail # NoFailure
                   /\ r.error_type = pOut.fail.exc
                   /\ r.error = <<pOut.fail.exc, "message">>
            /\ pOut.fail = NoFailure => r.status = "success"
            /\ pOut.fail.stage \in NonFetchStages => r.status = "error"
            /\ (pOut.fail # NoFailure /\ Len(pOut.before.cache) = 0) => r.status = "error"

\* a failed snapshot fetch was answered with an error result, on a cache that
\* already served the earlier lookups of the call
C10_Witness ==
    /\ PredictorReturned
    /\ pOut.runs = MaxRuns
    /\ pOut.fail.stage = "weather_t0"
    /\ pOut.result.status = "error"
    /\ pOut.result.error_type = "HTTPError"
    /\ Len(pOut.before.cache) > 0

\* the target instant of the predictor run
RunTarget == Localize(pOut.key[1], pOut.key[2], pOut.key[3], pOut.key[4], pOut.key[5])

\* the frame of the run with a reading in every column, as the fetches of a
\* run that succeeds deliver it
RunFrame ==
    [i \in 1..Len(pOut.frame) |-> Snapshot(pOut.frame[i].datetime, 10 * i)]

\* the orders three snapshots can be put into a frame in
AllOrders == {order \in [1..3 -> 1..3] : \A i \in 1..3 : \E j \in 1..3 : order[j] = i}

\* C27: the predictor fetches snapshots for exactly the instants target -
\* 2h, target - 1h and target, in that order and stopping at a fetch that
\* fails; they are the instants validate_prediction_request reports as
\* data_from; and the frame handed to the feature engine has their three
\* rows in ascending time order, in whatever order the snapshots are put
\* into it, so that the row the engine returns is the one of the target
\* instant, its lags taken from target - 1h and target - 2h.
C27_WindowInstants ==
    PredictorReturned =>
        LET info == validate_prediction_request(now, pOut.key[1], pOut.key[2],
                        pOut.key[3], pOut.key[4], pOut.key[5]).info
            instants == <<RunTarget - Hours(2), RunTarget - Hours(1), RunTarget>>
        IN  /\ Len(pOut.fetched) \in 1..3
            /\ pOut.fetched = SubSeq(instants, 1, Len(pOut.fetched))
            /\ pOut.result.status = "success" => Len(pOut.fetched) = 3
            /\ Len(pOut.fetched) = 3 =>
                  <<Strftime(pOut.fetched[1]), Strftime(pOut.fetched[2]),
                    Strftime(pOut.fetched[3])>> =
                  <<info.data_from.t2, info.data_from.t1, info.data_from.t0>>
            /\ pOut.frame # <<>> =>
                  /\ [i \in 1..Len(pOut.frame) |-> pOut.frame[i].datetime] = instants
                  /\ \A order \in AllOrders :
                         df_3hours_of(pOut.frame[order[1]], pOut.frame[order[2]],
                                      pOut.frame[order[3]]) = pOut.frame
                  /\ ~create_features_from_3hours(RunFrame).raised
                  /\ create_features_from_3hours(RunFrame).ret[1].datetime = RunTarget
                  /\ create_features_from_3hours(RunFrame).ret[1].pm2_5_lag_1 = Float(20)
                  /\ create_features_from_3hours(RunFrame).ret[1].pm2_5_lag_2 = Float(10)

\* a prediction for 00:30 succeeded on the snapshots of 22:30 and 23:30 of
\* the day before and of 00:30
C27_Witness ==
    /\ PredictorReturned
    /\ pOut.key = <<2025, 11, 25, 0, 30>>
    /\ pOut.result.status = "success"
    /\ pOut.fetched = <<Localize(2025, 11, 24, 22, 30), Localize(2025, 11, 24, 23, 30),
                        Localize(2025, 11, 25, 0, 30)>>
    /\ pOut.frame[3].datetime = Localize(2025, 11, 25, 0, 30)

\* the keys the forecast lookup and the archive lookup of the instant dt use
\* for the district of the run
ForecastKey(dt) ==
    <<"weather_forecast", SubSeq(Strftime(dt), 1, 4), <<pOut.district.lat, pOut.district.lon>>>>

ArchiveKey(dt) ==
    <<"weather_archive", SubSeq(Strftime(dt), 1, 4), <<pOut.district.lat, pOut.district.lon>>>>

\* the weather lookup of dt in the run went to the forecast provider, to the
\* archive provider: its entry is in the fetcher's cache
UsedForecast(dt) == DictHas(cache_manager.cache, ForecastKey(dt))

UsedArchive(dt) == DictHas(cache_manager.cache, ArchiveKey(dt))

\* C28: the weather lookup of a snapshot goes to the forecast provider if
\* and only if the local calendar date of its instant is today or later, and
\* to the archive provider if and only if that date is before today,
\* whether or not the instant itself is in the past.
C28_SourceByDate ==
    (PredictorReturned /\ pOut.result.status = "success") =>
        \A i \in 1..3 :
            /\ UsedForecast(pOut.fetched[i]) <=>
                   ~DateBefore(DateOf(pOut.fetched[i]), DateOf(now))
            /\ UsedArchive(pOut.fetched[i]) <=>
                   DateBefore(DateOf(pOut.fetched[i]), DateOf(now))

\* the window of 00:30 took 22:30 and 23:30 from the archive provider and
\* 00:30, an instant hours in the past, from the forecast provider
C28_Witness ==
    /\ PredictorReturned
    /\ pOut.result.status = "success"
    /\ Len(pOut.before.cache) = 0
    /\ now > pOut.fetched[3]
    /\ UsedArchive(pOut.fetched[1]) /\ UsedArchive(pOut.fetched[2])
    /\ UsedForecast(pOut.fetched[3])
    /\ DateOf(pOut.fetched[2]) # DateOf(pOut.fetched[3])

-----------------------------------------------------------------------------
(* Properties of the snapshot fetcher.                                      *)

\* a lookup is made in this step
LookupStep == fetchRun'.lookups = fetchRun.lookups + 1

\* the TTL of the source kind of a lookup, in seconds: 3600 for archive
\* entries, 1800 for forecast entries and for air-quality entries
TtlOf(id) == IF id[1] = "weather_archive" THEN 3600 ELSE 1800

\* the last store of the lookup made in this step, if any
StoredBefore == DictGet(fetchRun.stores, fetchRun'.last.id, NoneObj)

\* C29: a lookup repeated within the TTL of its source kind after a
\* lookup of the same kind, time bucket and coordinates stored its result
\* returns the stored value and calls no provider; a lookup whose result was
\* never stored, or was stored at least the TTL ago, calls the provider once;
\* the TTL is 1800 s for forecast and 3600 s for archive entries.
C29_ReadThrough ==
    [][LookupStep =>
          /\ (/\ StoredBefore # NoneObj
              /\ TimeTime(now) - StoredBefore.at < TtlOf(fetchRun'.last.id)) =>
                 /\ ~fetchRun'.last.raised
                 /\ fetchRun'.last.ret = StoredBefore.value
                 /\ fetchRun'.last.upstream = 0
          /\ (\/ StoredBefore = NoneObj
              \/ TimeTime(now) - StoredBefore.at >= TtlOf(fetchRun'.last.id)) =>
                 fetchRun'.last.upstream = 1]_vars

\* an archive lookup was answered from an entry stored 2700 s before, an age
\* at which a forecast entry has expired, without a call of the provider
C29_Witness ==
    /\ fetchRun.lookups > 1
    /\ fetchRun.last.id[1] = "weather_archive"
    /\ fetchRun.last.upstream = 0
    /\ ~fetchRun.last.raised
    /\ TimeTime(now) - DictGet(fetchRun.stores, fetchRun.last.id, NoneObj).at = 2700
    /\ fetchRun.last.ret = DictGet(fetchRun.stores, fetchRun.last.id, NoneObj).value

\* the air-quality lookup made in this step called the provider
AirRequestStep ==
    /\ LookupStep
    /\ fetchRun'.last.id[1] = "air"
    /\ fetchRun'.last.upstream = 1

\* C30: an air-quality lookup that calls the provider returns, and
\* stores, the components of a record of the answer whose timestamp is at the
\* least absolute distance from the instant; when the answer holds no record
\* it raises ValueError and no value is returned or stored.
C30_ClosestRecord ==
    [][AirRequestStep =>
          LET up == fetchRun'.last.up
              timestamp_utc == TimeTime(fetchRun'.last.instant)
              key == fetchRun'.last.id
          IN  /\ (up.ok /\ up.list # <<>>) =>
                    /\ ~fetchRun'.last.raised
                    /\ \E i \in 1..Len(up.list) :
                          /\ fetchRun'.last.ret = up.list[i].components
                          /\ \A j \in 1..Len(up.list) :
                                Abs(up.list[i].dt - timestamp_utc)
                                    <= Abs(up.list[j].dt - timestamp_utc)
                    /\ DictGet(cache_manager'.cache, key, NoneObj) = fetchRun'.last.ret
              /\ (up.ok /\ up.list = <<>>) =>
                    /\ fetchRun'.last.raised
                    /\ fetchRun'.last.exc = "ValueError"
                    /\ fetchRun'.last.ret = NoneObj
                    /\ ~DictHas(cache_manager'.cache, key)
                    /\ fetchRun'.stores = fetchRun.stores]_vars

\* of the records 600 s after, 540 s before and 540 s after the instant, the
\* second was returned and stored
C30_Witness ==
    /\ fetchRun.lookups > 0
    /\ fetchRun.last.id[1] = "air"
    /\ fetchRun.last.upstream = 1
    /\ fetchRun.last.up.ok
    /\ Len(fetchRun.last.up.list) = 3
    /\ fetchRun.last.ret = fetchRun.last.up.list[2].components
    /\ DictGet(cache_manager.cache, fetchRun.last.id, NoneObj) = fetchRun.last.ret

\* an answer without records made the lookup raise ValueError; the cache
\* holds no entry for it
C30_NoRecords ==
    /\ fetchRun.lookups > 0
    /\ fetchRun.last.id[1] = "air"
    /\ fetchRun.last.up.ok
    /\ fetchRun.last.up.list = <<>>
    /\ fetchRun.last.raised
    /\ ~DictHas(cache_manager.cache, fetchRun.last.id)

\* the payload of a provider's answer is one the fetch cannot read a value
\* from: no record, no hourly data, no row, or a column missing
FailedAnswer(id, up) ==
    \/ ~up.ok
    \/ id[1] = "air" /\ up.list = <<>>
    \/ /\ id[1] # "air"
       /\ \/ "time" \notin up.columns
          \/ up.hourly = <<>>
          \/ ~((IF id[1] = "weather_archive" THEN ArchiveColumns ELSE ForecastColumns)
                  \subseteq up.columns)

\* the lookup made in this step found no entry to return and the provider's
\* answer failed
FailedLookupStep ==
    /\ LookupStep
    /\ \/ StoredBefore = NoneObj
       \/ TimeTime(now) - StoredBefore.at >= TtlOf(fetchRun'.last.id)
    /\ FailedAnswer(fetchRun'.last.id, fetchRun'.last.up)

\* C31: a lookup whose provider call fails, by an exception of the request
\* or by a payload without data or without a column, raises to the caller
\* after that one call, the exception of the request unchanged; the cache
\* holds no entry for the key afterwards and is what the cache get left; the
\* next lookup of the same key calls the provider again.
C31_FailureNotCached ==
    [][(FailedLookupStep =>
           /\ fetchRun'.last.raised
           /\ fetchRun'.last.ret = NoneObj
           /\ fetchRun'.last.upstream = 1
           /\ IF fetchRun'.last.up.ok
              THEN fetchRun'.last.exc \in {"ValueError", "KeyError"}
              ELSE fetchRun'.last.exc = fetchRun'.last.up.exc
           /\ ~DictHas(cache_manager'.cache, fetchRun'.last.id)
           /\ cache_manager' = CM_get(cache_manager, fetchRun'.last.id,
                                      TtlOf(fetchRun'.last.id), now).c
           /\ fetchRun'.stores = fetchRun.stores)
       /\ ((/\ LookupStep
            /\ fetchRun.lookups > 0
            /\ fetchRun.last.raised
            /\ fetchRun'.last.id = fetchRun.last.id) =>
               fetchRun'.last.upstream = 1)]_vars

\* a lookup that follows other lookups failed on a payload that lacks a
\* column; no lookup of the run has stored anything
C31_Witness ==
    /\ fetchRun.lookups > 1
    /\ fetchRun.last.raised
    /\ fetchRun.last.exc = "KeyError"
    /\ fetchRun.last.upstream = 1
    /\ CM_size(cache_manager) = 0

\* the weather lookup made in this step called the provider
WeatherRequestStep ==
    /\ LookupStep
    /\ fetchRun'.last.id[1] # "air"
    /\ fetchRun'.last.upstream = 1

\* the rows of a series whose local time is the hour
ExactRows(hourly, hour) == {i \in 1..Len(hourly) : tz_convert(hourly[i].time) = hour}

\* C32: a weather lookup that calls the provider and is answered with a
\* series that has rows (and every column) does not raise; it returns the
\* measurements of a row whose local time is the instant truncated to the
\* hour when the series has such a row, and otherwise of a row at the least
\* absolute distance from that hour, however far that is.
C32_HourMatching ==
    [][WeatherRequestStep =>
          LET up == fetchRun'.last.up
              hour == target_hour(fetchRun'.last.instant)
          IN  (up.ok /\ up.hourly # <<>> /\ AllColumns \subseteq up.columns) =>
                 /\ ~fetchRun'.last.raised
                 /\ \E i \in 1..Len(up.hourly) :
                       /\ fetchRun'.last.ret = up.hourly[i].values
                       /\ ExactRows(up.hourly, hour) # {} => i \in ExactRows(up.hourly, hour)
                       /\ ExactRows(up.hourly, hour) = {} =>
                             \A j \in 1..Len(up.hourly) :
                                 Abs(tz_convert(up.hourly[i].time) - hour)
                                     <= Abs(tz_convert(up.hourly[j].time) - hour)]_vars

\* a series with rows two hours before, one hour after and one hour before
\* the hour of the instant, and none of that hour: the second was returned
C32_Witness ==
    /\ fetchRun.lookups > 0
    /\ fetchRun.last.upstream = 1
    /\ fetchRun.last.up = HourlyAnswer("near", fetchRun.last.instant)
    /\ ~fetchRun.last.raised
    /\ fetchRun.last.ret = fetchRun.last.up.hourly[2].values

\* a series whose only row is three days from the instant: it was returned
C32_FarRow ==
    /\ fetchRun.lookups > 0
    /\ fetchRun.last.upstream = 1
    /\ fetchRun.last.up = HourlyAnswer("far", fetchRun.last.instant)
    /\ ~fetchRun.last.raised
    /\ fetchRun.last.ret = fetchRun.last.up.hourly[1].values

\* the archive was asked and answered with the complete day of the request
CompleteDayReturned ==
    /\ fetchRun.lookups > 0
    /\ fetchRun.last.id[1] = "weather_archive"
    /\ fetchRun.last.upstream = 1
    /\ fetchRun.last.up = ArchiveDay(ArchiveParams(fetchRun.last.instant))

\* C33 as stated: when the archive answers with the complete day it was
\* asked for, the series has a row of the local hour of the instant, for
\* every hour 0..23, and that row is the one returned.
C33_AsStated ==
    CompleteDayReturned =>
        \E i \in 1..Len(fetchRun.last.up.hourly) :
            /\ tz_convert(fetchRun.last.up.hourly[i].time)
                   = target_hour(fetchRun.last.instant)
            /\ fetchRun.last.ret = fetchRun.last.up.hourly[i].values

\* what the code returns from the complete day: the row of the local hour
\* for the hours 7..23, and for the hours 0..6 the first row of the series,
\* 07:00 local, 7 - h hours after the hour asked for
C33_SevenHours ==
    CompleteDayReturned =>
        LET h == Strftime(fetchRun.last.instant)[4]
            row == fetchRun.last.up.hourly[IF h < UtcOffsetHours THEN 1
                                           ELSE h - UtcOffsetHours + 1]
        IN  /\ ~fetchRun.last.raised
            /\ fetchRun.last.ret = row.values
            /\ tz_convert(row.time) - target_hour(fetchRun.last.instant)
                   = IF h < UtcOffsetHours THEN Hours(UtcOffsetHours - h) ELSE 0

-----------------------------------------------------------------------------
(* Properties of the feature engine.                                        *)

\* the call of the run has returned or raised
FeatureCalled == fRun.calls = 1

\* the row of the frame passed whose index is back hours before the target
RowBefore(back) ==
    CHOOSE row \in {fRun.passed[i] : i \in 1..Len(fRun.passed)} :
        row.datetime = FeatureTarget - Hours(back)

\* the frame passed has the three rows of the target and the two hours before
ThreeRows ==
    /\ Len(fRun.passed) = 3
    /\ {fRun.passed[i].datetime : i \in 1..3} =
           {FeatureTarget - Hours(back) : back \in 0..2}

\* no value of the frame passed is missing
FullyDefined ==
    \A i \in 1..Len(fRun.passed), col \in Columns : ~IsNaN(fRun.passed[i][col])

\* the float x is the integer n; the float x is the fraction n / d
IsInteger(x, n) == x.k = "rat" /\ x.d = 1 /\ x.n = n

IsFraction(x, n, d) == x.k = "rat" /\ x.n * d = n * x.d

\* C22: for three snapshots whose pm2_5 values are a at t-2, b at t-1 and
\* c at t-0, every value defined, create_features_from_3hours returns one
\* row with pm2_5_lag_1 = b, pm2_5_lag_2 = a, pm2_5_roll_avg_3hr =
\* (a + b + c) / 3 and pm2_5_diff_1hr = c - b, for integers a, b, c.
C22_WindowFeatures ==
    (FeatureCalled /\ ThreeRows /\ FullyDefined) =>
        LET a == RowBefore(2).pm2_5.n
            b == RowBefore(1).pm2_5.n
            c == RowBefore(0).pm2_5.n
        IN  /\ ~fRun.out.raised
            /\ Len(fRun.out.ret) = 1
            /\ IsInteger(fRun.out.ret[1].pm2_5_lag_1, b)
            /\ IsInteger(fRun.out.ret[1].pm2_5_lag_2, a)
            /\ IsFraction(fRun.out.ret[1].pm2_5_roll_avg_3hr, a + b + c, 3)
            /\ IsInteger(fRun.out.ret[1].pm2_5_diff_1hr, c - b)

\* the readings (10, 20, 30) gave the lags 20 and 10, the average 20 and the
\* difference 10
C22_Witness ==
    /\ FeatureCalled
    /\ fRun.passed = Frame(<<10, 20, 30>>)
    /\ ~fRun.out.raised
    /\ fRun.out.ret[1].pm2_5_lag_1 = Float(20)
    /\ fRun.out.ret[1].pm2_5_lag_2 = Float(10)
    /\ fRun.out.ret[1].pm2_5_roll_avg_3hr = Float(20)
    /\ fRun.out.ret[1].pm2_5_diff_1hr = Float(10)

\* the readings (1, 2, 4), handed over out of order, gave the average 7 / 3
C22_Fraction ==
    /\ FeatureCalled
    /\ fRun.passed = Permuted(Frame(<<1, 2, 4>>), <<3, 1, 2>>)
    /\ ~fRun.out.raised
    /\ fRun.out.ret[1].pm2_5_roll_avg_3hr.n = 7
    /\ fRun.out.ret[1].pm2_5_roll_avg_3hr.d = 3
    /\ fRun.out.ret[1].pm2_5_lag_2.n = 1

\* the raw fields, by hours before the target, that some column of the t-0
\* row is computed from
FeedsTarget(back, col) ==
    \/ back = 0
    \/ back = 1 /\ col \in {"pm2_5", "so2", "co", "shortwave_radiation", "temperature_2m",
                            "relative_humidity_2m", "windspeed_10m", "precipitation"}
    \/ back = 2 /\ col \in {"pm2_5", "temperature_2m", "relative_humidity_2m", "so2",
                            "windspeed_10m", "co", "precipitation"}

\* the raw fields that a lag, a first difference, a passed-through column or
\* an interaction term of the t-0 row is computed from
NeededByTarget(back, col) ==
    \/ back = 0
    \/ back = 1 /\ col \in {"pm2_5", "so2", "co", "shortwave_radiation", "temperature_2m",
                            "relative_humidity_2m"}
    \/ back = 2 /\ col = "pm2_5"

\* the call raised ValueError and returned no row
FeatureFailed ==
    /\ fRun.out.raised
    /\ fRun.out.exc.type = "ValueError"
    /\ fRun.out.ret = <<>>

\* the call returned one row, the one of the target instant
ReturnedTargetRow ==
    /\ ~fRun.out.raised
    /\ Len(fRun.out.ret) = 1
    /\ fRun.out.ret[1].datetime = FeatureTarget

\* C23 as stated: the engine fails for fewer than 3 snapshots and for 3
\* snapshots with a value missing in a raw field that feeds the t-0 row;
\* for 3 fully defined snapshots it returns exactly the t-0 row.
C23_AsStated ==
    FeatureCalled =>
        /\ Len(fRun.passed) < 3 => FeatureFailed
        /\ (/\ ThreeRows
            /\ \E back \in 0..2, col \in Columns :
                  FeedsTarget(back, col) /\ IsNaN(RowBefore(back)[col])) => FeatureFailed
        /\ (ThreeRows /\ FullyDefined) => ReturnedTargetRow

\* C23: the engine fails for fewer than 3 snapshots, and for 3 snapshots
\* exactly when a value is missing that a lag, a first difference, a
\* passed-through column or an interaction term of the t-0 row is computed
\* from: pm2_5 at t-2; pm2_5, so2, co, shortwave_radiation, temperature or
\* humidity at t-1; any field at t-0.  Any other missing value, also one that
\* a rolling statistic of the t-0 row is computed from, is skipped, and the
\* engine returns exactly one row, the t-0 row, as it does for 3 fully
\* defined snapshots.
C23_FailsOnUndefined ==
    FeatureCalled =>
        /\ Len(fRun.passed) < 3 => FeatureFailed
        /\ ThreeRows =>
              IF \E back \in 0..2, col \in Columns :
                    NeededByTarget(back, col) /\ IsNaN(RowBefore(back)[col])
              THEN FeatureFailed
              ELSE /\ ReturnedTargetRow
                   /\ \A j \in 1..Len(FeatureColumns) :
                         ~IsNaN(fRun.out.ret[1][FeatureColumns[j]])

\* so2 was missing at t-1 and the call raised
C23_Witness ==
    /\ FeatureCalled
    /\ ThreeRows
    /\ IsNaN(RowBefore(1).so2)
    /\ FeatureFailed

\* temperature was missing at t-2 and the call returned the t-0 row, its
\* rolling mean taken over the two values left
C23_Skipped ==
    /\ FeatureCalled
    /\ ThreeRows
    /\ IsNaN(RowBefore(2).temperature_2m)
    /\ ReturnedTargetRow
    /\ fRun.out.ret[1].temp_roll_avg_3hr = RowBefore(0).temperature_2m

-----------------------------------------------------------------------------
(* Properties of the batch orchestrator and of the cache-clear route.       *)

\* the step in which predict_all_districts assembles and returns
FinishStep == batch.phase = "running" /\ batch'.phase = "idle"

Ids(s) == {s[i].id : i \in 1..Len(s)}

DistrictsOf(resp) == IF resp.body.success THEN resp.body.data.districts ELSE <<>>

ErrorsOf(resp) ==
    IF resp.body.success /\ "errors" \in DOMAIN resp.body.data
    THEN resp.body.data.errors
    ELSE <<>>

\* what the statistics of a response must be, from the values the tasks returned
StatisticsOver(resp, values) ==
    IF Len(values) = 0
    THEN resp.body.success => "error" \in DOMAIN resp.body.data.statistics
    ELSE LET st == resp.body.data.statistics
             vs == {values[i] : i \in 1..Len(values)}
         IN  /\ resp.body.success
             /\ "error" \notin DOMAIN st
             /\ st.total_districts_successful = Len(values)
             /\ st.city_average = RoundDiv(Sum(values), Len(values))
             /\ st.city_max \in vs /\ \A v \in vs : v <= st.city_max
             /\ st.city_min \in vs /\ \A v \in vs : st.city_min <= v
             /\ st.who_standard_15.above + st.who_standard_15.below = Len(values)
             /\ st.who_standard_15.above =
                    Cardinality({i \in 1..Len(values) : values[i] > WhoStandard})
             /\ st.unhealthy_threshold_55 =
                    Cardinality({i \in 1..Len(values) : values[i] > UnhealthyThreshold})

PartitionStep ==
    LET N == Len(districts)
        failures == SelectSeq(batch.returned, LAMBDA r : r.status # "success")
        successes == SelectSeq(batch.returned, LAMBDA r : r.status = "success")
        K == Len(failures)
        values == [i \in 1..Len(successes) |-> successes[i].pm25_prediction]
        resp == lastResp'.resp
    IN  /\ Len(batch.returned) = N
        /\ Len(DistrictsOf(resp)) = N - K
        /\ Len(ErrorsOf(resp)) = K
        /\ Ids(DistrictsOf(resp)) \cap Ids(ErrorsOf(resp)) = {}
        /\ Ids(DistrictsOf(resp)) \cup Ids(ErrorsOf(resp)) = Ids(districts)
        /\ Ids(DistrictsOf(resp)) = Ids(successes)
        /\ Ids(ErrorsOf(resp)) = Ids(failures)
        /\ StatisticsOver(resp, values)

\* C1: when predict_all_districts returns for a batch of N districts of which
\* K failed, its response holds N-K success entries and K failure entries,
\* the ids of the two lists are disjoint and together are the ids of all
\* districts, and the statistics are those of exactly the N-K successful
\* values (the empty form when there is none).
C1_PartialFailure == [][FinishStep => PartitionStep]_vars

\* a batch of two districts returned with one success and one failure
C1_Witness ==
    /\ lastResp.route = "predict_all"
    /\ lastResp.dispatched = 2
    /\ Len(DistrictsOf(lastResp.resp)) = 1
    /\ Len(ErrorsOf(lastResp.resp)) = 1
    /\ lastResp.resp.body.data.statistics.total_districts_successful = 1

\* a response for key was stored, less than the TTL ago, and key passes validation
StoredWithinTtl(key) ==
    /\ lastStored[key] # NoneObj
    /\ TimeTime(now) - lastStored[key].at < CACHE_TTL_PREDICTION
    /\ validate_prediction_request(now, key[1], key[2], key[3], key[4], key[5]).is_valid

\* a predict_all_districts request for key is received and either returns at
\* once or dispatches its district tasks
RequestStep(key) ==
    /\ batch = Idle
    /\ \/ batch'.phase = "running" /\ batch'.key = key
       \/ /\ batch' = Idle
          /\ lastResp' # lastResp
          /\ lastResp'.route = "predict_all"
          /\ lastResp'.key = key

\* the request is answered with the stored response and nothing is computed
ShortCircuit(key) ==
    /\ batch' = Idle
    /\ lastResp'.resp = [status |-> 200, body |-> lastStored[key].resp]
    /\ lastResp'.dispatched = 0
    /\ cache_manager' = cache_manager

\* C2 as stated: once a response is stored for a key, any later valid request
\* for the key within the TTL returns it without computing anything.
C2_AsStated ==
    [][\A key \in RequestKeys :
          (StoredWithinTtl(key) /\ RequestStep(key)) => ShortCircuit(key)]_vars

\* C2: once a response is stored for a key, and as long as the cache-clear
\* route has not run since, any later valid request for the key within the
\* TTL returns the stored response without dispatching a district task and
\* without touching the fetcher's cache.
C2_ShortCircuitUnlessCleared ==
    [][\A key \in RequestKeys :
          (StoredWithinTtl(key) /\ ~lastStored[key].cleared /\ RequestStep(key))
              => ShortCircuit(key)]_vars

\* a request was answered from the result cache after the clock had advanced
C2_Witness ==
    /\ batch = Idle
    /\ lastResp.route = "predict_all"
    /\ lastResp.dispatched = 0
    /\ lastResp.resp.status = 200
    /\ lastStored[lastResp.key] # NoneObj
    /\ ~lastStored[lastResp.key].cleared
    /\ lastResp.resp.body = lastStored[lastResp.key].resp
    /\ TimeTime(now) > lastStored[lastResp.key].at

\* C8 as stated: when the cache-clear route has run, the result cache holds
\* no entry and the cache the fetcher reads through holds no entry.
C8_AsStated ==
    [][clears' = clears + 1 =>
          /\ Len(prediction_cache'.cache) = 0
          /\ Len(cache_manager'.cache) = 0]_vars

\* what the district tasks of the batch in progress returned, by status
FailuresReturned == SelectSeq(batch.returned, LAMBDA r : r.status # "success")
SuccessesReturned == SelectSeq(batch.returned, LAMBDA r : r.status = "success")

Elems(s) == {s[i] : i \in 1..Len(s)}

EmbedsFailuresStep ==
    LET resp == lastResp'.resp
    IN  /\ Len(districts) >= 1 => (resp.status = 200 /\ resp.body.success)
        /\ Elems(SuccessesReturned) \subseteq Elems(DistrictsOf(resp))
        /\ Len(FailuresReturned) >= 1 =>
               /\ "errors" \in DOMAIN resp.body.data
               /\ "warning" \in DOMAIN resp.body.data
               /\ Elems(resp.body.data.errors) = Elems(FailuresReturned)

\* C11: when predict_all_districts returns for a valid request time, every
\* success a district task returned is an entry of the response whatever the
\* other tasks returned, the response is a success (status 200, success =
\* true) for any subset of failed districts, and it embeds the failure list
\* and a warning whenever at least one district failed.
C11_FailuresEmbedded == [][FinishStep => EmbedsFailuresStep]_vars

\* a batch of two districts that both failed returned as a success
C11_Witness ==
    /\ lastResp.route = "predict_all"
    /\ lastResp.dispatched = 2
    /\ lastResp.resp.status = 200
    /\ lastResp.resp.body.success
    /\ Len(DistrictsOf(lastResp.resp)) = 0
    /\ Len(ErrorsOf(lastResp.resp)) = 2
    /\ "warning" \in DOMAIN lastResp.resp.body.data

\* C12 as stated: whenever a batch has no successful prediction, for N >= 1
\* failed districts or for an empty district list, predict_all_districts
\* returns a response whose statistics are the empty form and no division by
\* zero occurs.
C12_AsStated ==
    [][(FinishStep /\ Len(SuccessesReturned) = 0) =>
          /\ lastResp'.resp.body.success
          /\ "error" \in DOMAIN lastResp'.resp.body.data.statistics
          /\ lastResp'.resp.body.data.statistics.error = "No successful predictions"]_vars

StrictlyAscending(s) == \A i \in 1..(Len(s) - 1) : s[i].id < s[i + 1].id

\* C14: the success list and the failure list of the response are each
\* strictly ascending by district id, whatever order the tasks completed in.
C14_SortedById ==
    [][FinishStep =>
          /\ StrictlyAscending(DistrictsOf(lastResp'.resp))
          /\ StrictlyAscending(ErrorsOf(lastResp'.resp))]_vars

\* two successful tasks completed in descending id order and the response
\* lists them ascending
C14_Witness ==
    /\ lastResp.route = "predict_all"
    /\ lastResp.dispatched = 2
    /\ lastResp.completed = <<2, 1>>
    /\ Len(DistrictsOf(lastResp.resp)) = 2
    /\ DistrictsOf(lastResp.resp)[1].id = 1
    /\ DistrictsOf(lastResp.resp)[2].id = 2

\* the ids of a sequence of outcomes, each occurring exactly once, are ids
OnePerDistrict(outcomes, ids) ==
    /\ Len(outcomes) = Cardinality(ids)
    /\ Ids(outcomes) = ids

JoinAllStep ==
    LET resp == lastResp'.resp
        key == batch.key
    IN  /\ batch.futures = {}
        /\ OnePerDistrict(batch.returned, Ids(districts))
        /\ Len(districts) >= 1 =>
               /\ OnePerDistrict(DistrictsOf(resp) \o ErrorsOf(resp), Ids(districts))
               /\ Elems(DistrictsOf(resp)) \cup Elems(ErrorsOf(resp)) = Elems(batch.returned)
               /\ PC_get(prediction_cache', key[1], key[2], key[3], key[4], key[5],
                         now).ret = resp.body

\* a district task runs only if it was dispatched and has not run before
DispatchedOnceStep ==
    (batch.phase = "running" /\ batch'.phase = "running"
        /\ batch'.returned # batch.returned) =>
        /\ Len(batch'.returned) = Len(batch.returned) + 1
        /\ batch'.returned[Len(batch'.returned)].id \notin Ids(batch.returned)
        /\ batch'.returned[Len(batch'.returned)].id \in Ids(districts)

\* C15: predict_all_districts assembles its response, writes the result cache
\* and returns only when every dispatched district task has completed; each
\* district is dispatched exactly once, and the response returned, which is
\* the response cached, holds exactly one outcome per district.
C15_JoinAll == [][(FinishStep => JoinAllStep) /\ DispatchedOnceStep]_vars

\* a batch of two districts returned, and cached, both outcomes
C15_Witness ==
    /\ batch = Idle
    /\ lastResp.route = "predict_all"
    /\ lastResp.dispatched = 2
    /\ Len(lastResp.completed) = 2
    /\ Len(DistrictsOf(lastResp.resp)) + Len(ErrorsOf(lastResp.resp)) = 2
    /\ lastStored[lastResp.key] # NoneObj
    /\ lastStored[lastResp.key].resp = lastResp.resp.body

-----------------------------------------------------------------------------
(* Properties of the routes that take a request time.                       *)

TimedRoutes == {"predict_all", "predict_single", "ranking", "geojson"}

\* a request of one of the routes for key returns in this step, at once
ReturnsAtOnce(key) ==
    /\ lastResp' # lastResp
    /\ lastResp'.route \in TimedRoutes
    /\ lastResp'.key = key
    /\ lastResp'.route = "predict_all" => batch = Idle

\* the request is answered with the validation error and nothing else happens
Aborted(key) ==
    LET v == validate_prediction_request(now, key[1], key[2], key[3], key[4], key[5])
    IN  /\ lastResp'.resp.status = 400
        /\ ~lastResp'.resp.body.success
        /\ lastResp'.resp.body.error.code = v.error_code
        /\ v.error_code \in ValidationCodes
        /\ lastResp'.dispatched = 0
        /\ cache_manager' = cache_manager
        /\ prediction_cache' = prediction_cache
        /\ batch' = batch

\* C13: when validation rejects the request time, predict-all,
\* predict-single, ranking and geojson return the validation error code, no
\* district task is dispatched and no predictor is invoked, and the result
\* cache and the fetcher's cache are left as they were.
C13_RejectionAborts ==
    [][\A key \in RequestKeys :
          ~validate_prediction_request(now, key[1], key[2], key[3], key[4],
                                       key[5]).is_valid =>
              /\ ~(batch = Idle /\ batch'.phase = "running" /\ batch'.key = key)
              /\ ReturnsAtOnce(key) => Aborted(key)]_vars

\* predict_single was rejected as too recent while both caches held entries
C13_Witness ==
    /\ lastResp.route = "predict_single"
    /\ lastResp.resp.status = 400
    /\ lastResp.resp.body.error.code = "TIME_TOO_RECENT"
    /\ Len(cache_manager.cache) > 0
    /\ Len(prediction_cache.cache) > 0

-----------------------------------------------------------------------------
(* Properties of the routes that read a stored batch response.              *)

\* a ranking request with a sort field the route accepts, or a geojson
\* request, for key returns in this step
DependentStep(key) ==
    \/ \E query \in RankingQueries :
          /\ query[1] \in {"pm25", "population"}
          /\ GetRanking(key, query)
    \/ GetGeojson(key)

\* the result cache holds a response for key that is younger than the TTL
HoldsUnexpired(key) ==
    LET k == PC_generate_key(key[1], key[2], key[3], key[4], key[5])
    IN  /\ DictHas(prediction_cache.cache, k)
        /\ TimeTime(now) - DictGet(prediction_cache.timestamps, k, 0) < CACHE_TTL_PREDICTION

\* the response of key in the result cache
HeldResponse(key) ==
    DictGet(prediction_cache.cache,
            PC_generate_key(key[1], key[2], key[3], key[4], key[5]), NoneObj)

\* a predict-all for key stored its response less than the TTL ago and no
\* clear came after it
CompletedWithinTtl(key) ==
    /\ lastStored[key] # NoneObj
    /\ ~lastStored[key].cleared
    /\ TimeTime(now) - lastStored[key].at < CACHE_TTL_PREDICTION

\* the request is answered with the not-found error; nothing was computed
AnswersNotFound ==
    /\ lastResp'.resp.status = 404
    /\ ~lastResp'.resp.body.success
    /\ lastResp'.resp.body.error.code = "NO_PREDICTION_DATA"
    /\ lastResp'.dispatched = 0
    /\ batch' = batch

\* the members of a sequence
Members(seq) == {seq[i] : i \in 1..Len(seq)}

\* the request is answered from the districts and statistics of stored
AnswersFrom(stored) ==
    LET data == lastResp'.resp.body.data
        from == stored.data.districts
    IN  /\ lastResp'.resp.status = 200
        /\ lastResp'.resp.body.success
        /\ lastResp'.dispatched = 0
        /\ batch' = batch
        /\ data.statistics = stored.data.statistics
        /\ lastResp'.route = "ranking" =>
              /\ Members(data.ranking) \subseteq Members(from)
              /\ Len(data.ranking) = IF data.limit < Len(from) THEN data.limit
                                     ELSE Len(from)
              /\ Members(data.best_air_quality) \subseteq Members(from)
              /\ Members(data.worst_air_quality) \subseteq Members(from)
        /\ lastResp'.route = "geojson" =>
              data.features = [i \in 1..Len(from) |-> Feature(from[i])]

\* C21 as stated: a ranking or geojson request that passes validation is
\* answered with NO_PREDICTION_DATA, both caches left as they were, when
\* the result cache holds no unexpired response for its key, and from the
\* stored response when a predict-all for the key completed within the TTL.
C21_AsStated ==
    [][\A key \in RequestKeys :
          (/\ validate_prediction_request(now, key[1], key[2], key[3], key[4],
                                          key[5]).is_valid
           /\ DependentStep(key)) =>
              /\ ~HoldsUnexpired(key) =>
                    /\ AnswersNotFound
                    /\ prediction_cache' = prediction_cache
                    /\ cache_manager' = cache_manager
              /\ CompletedWithinTtl(key) => AnswersFrom(lastStored[key].resp)]_vars

\* C21: a ranking or geojson request that passes validation never
\* computes a prediction.  When the result cache holds no unexpired response
\* for its key the answer is NO_PREDICTION_DATA, the fetcher's cache is left
\* as it was, and the result cache is left as it was except that an expired
\* entry of the key is deleted.  When the result cache holds an unexpired
\* response, as it does when a predict-all for the key completed within the
\* TTL with no clear after it, the answer is built from the districts and
\* statistics of exactly that response and both caches are left as they were.
C21_DependentRoutes ==
    [][\A key \in RequestKeys :
          (/\ validate_prediction_request(now, key[1], key[2], key[3], key[4],
                                          key[5]).is_valid
           /\ DependentStep(key)) =>
              /\ cache_manager' = cache_manager
              /\ ~HoldsUnexpired(key) =>
                    /\ AnswersNotFound
                    /\ prediction_cache' =
                           [prediction_cache EXCEPT
                               !.cache = DictPop(@, PC_generate_key(key[1], key[2],
                                                        key[3], key[4], key[5])),
                               !.timestamps = DictPop(@, PC_generate_key(key[1], key[2],
                                                        key[3], key[4], key[5]))]
              /\ HoldsUnexpired(key) =>
                    /\ AnswersFrom(HeldResponse(key))
                    /\ prediction_cache' = prediction_cache
              /\ CompletedWithinTtl(key) =>
                    /\ HoldsUnexpired(key)
                    /\ HeldResponse(key) = lastStored[key].resp]_vars

\* a ranking or geojson request found the response of its key expired: it was
\* answered with NO_PREDICTION_DATA and the entry is gone from the result cache
C21_Witness ==
    /\ lastResp.route \in {"ranking", "geojson"}
    /\ lastResp.resp.status = 404
    /\ lastResp.resp.body.error.code = "NO_PREDICTION_DATA"
    /\ lastStored[lastResp.key] # NoneObj
    /\ ~DictHas(prediction_cache.cache,
                PC_generate_key(lastResp.key[1], lastResp.key[2], lastResp.key[3],
                                lastResp.key[4], lastResp.key[5]))

\* a ranking request was answered from the stored response of its key
C21_Answered ==
    /\ lastResp.route = "ranking"
    /\ lastResp.resp.status = 200
    /\ Len(lastResp.resp.body.data.ranking) = 1
    /\ lastStored[lastResp.key] # NoneObj
    /\ lastResp.resp.body.data.ranking = lastStored[lastResp.key].resp.data.districts

-----------------------------------------------------------------------------
(* Properties of the worker pool.                                           *)

\* C16: within one batch at most MAX_WORKERS district tasks execute at
\* the same time and at most MAX_WORKERS worker threads exist, for every
\* number of districts, also more than MAX_WORKERS.
C16_PoolBound ==
    /\ Cardinality(pool.running) <= MAX_WORKERS
    /\ pool.threads <= MAX_WORKERS
    /\ pool.threads <= pool.submitted

\* MAX_WORKERS tasks execute while further tasks of the batch wait in the queue
C16_Witness ==
    /\ Len(districts) > MAX_WORKERS
    /\ Cardinality(pool.running) = MAX_WORKERS
    /\ Len(pool.queue) > 0

\* the predict-all request for key has returned a response and the result
\* cache was given it
ReturnedAndStored(key) ==
    /\ batch = Idle
    /\ lastResp.route = "predict_all"
    /\ lastResp.key = key
    /\ lastStored[key] # NoneObj
    /\ lastStored[key].resp = lastResp.resp.body
    /\ PC_get(prediction_cache, key[1], key[2], key[3], key[4], key[5], now).ret
           = lastResp.resp.body

\* C25 as stated: under fair scheduling, with every predictor invocation
\* finishing, a predict-all request that dispatched its district tasks
\* eventually returns a response and stores it in the result cache, for any
\* number of districts.
C25_AsStated ==
    \A key \in RequestKeys :
        (batch.phase = "running" /\ batch.key = key) ~> ReturnedAndStored(key)

\* the same for a district list that is not empty
C25_ReturnsWithDistricts ==
    \A key \in RequestKeys :
        (batch.phase = "running" /\ batch.key = key /\ Len(districts) > 0)
            ~> ReturnedAndStored(key)

\* a request on more districts than the pool has workers returned
C25_Returned ==
    /\ Len(districts) = PoolDistricts
    /\ \E key \in RequestKeys : ReturnedAndStored(key)

\* C26: when the upstream call of exactly one district task of a batch never
\* returns, every other district task of the batch is eventually started and
\* runs to completion.
C26_StallIsolation ==
    (batch.phase = "running" /\ pool.stalled # 0)
        ~> (/\ batch.phase = "running"
            /\ \A i \in batch.futures : i = pool.stalled
            /\ Len(batch.returned) = Len(districts) - 1)

\* the stalled task holds a worker thread of a batch on more districts than
\* the pool has workers, and it is the only task that has not completed
C26_Witness ==
    /\ batch.phase = "running"
    /\ Len(districts) > MAX_WORKERS
    /\ pool.stalled \in pool.running
    /\ batch.futures = {pool.stalled}
    /\ Len(batch.returned) = Len(districts) - 1

-----------------------------------------------------------------------------
(* Properties of the caches under threads.                                  *)

\* C17 as stated: under every statement-level interleaving of set calls on
\* the shared CacheManager, the number of stored entries never exceeds
\* max_size.
C17_AsStated == Len(cache_manager.cache) <= cache_manager.max_size

\* C18 as stated: no get of either cache ever ends with an exception,
\* whatever another thread does between its statements.
C18_AsStated ==
    \A w \in DOMAIN workers : ~(workers[w].ret.op = "get" /\ workers[w].ret.raised)

AllIdle == \A w \in DOMAIN workers : workers[w].pc = "idle"

\* C19 as stated: whenever no cache operation is in progress, the three
\* maps of the CacheManager hold the same key set, so that no timestamp or
\* access count is kept for a key whose value is gone.
C19_AsStated ==
    AllIdle =>
        /\ DictKeys(cache_manager.timestamps) = DictKeys(cache_manager.cache)
        /\ DictKeys(cache_manager.access_count) = DictKeys(cache_manager.cache)

-----------------------------------------------------------------------------
(* Properties of concurrent batch requests.                                 *)

RequestThreads == 1..MaxThreads

\* thread r found no cached result, ran its batch and has returned
MissedAndReturned(r) == batch[r].phase = "done" /\ batch[r].missed

\* the ids of the districts whose task thread r ran, one per task
FannedOut(r) == [j \in 1..Len(batch[r].returned) |-> batch[r].returned[j].id]

\* the response thread r stored is made of the results of its own tasks
OwnResponse(r) ==
    LET data == batch[r].success_wrapped.data
        own == batch[r].returned
        listed == data.districts \o (IF "errors" \in DOMAIN data THEN data.errors ELSE <<>>)
    IN  /\ Elems(listed) = Elems(own)
        /\ Len(listed) = Len(own)
        /\ batch[r].resp.body.data = data

\* C38: there is no single-flight guard on predict_all_districts.  When the
\* requests of two threads for the same key have both found the result
\* cache without the entry, each has run one task per district of its own
\* and each has stored its own response; the entry cached in the end is the
\* whole response of one of them, the one whose storing statement ran last,
\* never a mixture.  (For an empty district list each ends in
\* INTERNAL_ERROR and nothing is stored.)
C38_NoSingleFlight ==
    (\A r \in RequestThreads : MissedAndReturned(r)) =>
        LET key == PC_generate_key(SameKey[1], SameKey[2], SameKey[3], SameKey[4],
                                   SameKey[5])
            entry == DictGet(prediction_cache.cache, key, NoneObj)
        IN  IF Len(districts) = 0
            THEN /\ \A r \in RequestThreads : batch[r].resp.status = 500
                 /\ entry = NoneObj
            ELSE /\ \A r \in RequestThreads :
                       /\ Elems(FannedOut(r)) = {districts[i].id : i \in 1..Len(districts)}
                       /\ Len(FannedOut(r)) = Len(districts)
                       /\ batch[r].resp.status = 200
                       /\ OwnResponse(r)
                 /\ lastStored[SameKey] # NoneObj
                 /\ entry = batch[lastStored[SameKey].by].success_wrapped
                 /\ DictHas(prediction_cache.timestamps, key)

\* both threads found no entry before either had stored; they ran two tasks
\* each and returned different responses; thread 1 stored last and its
\* response is the entry
C38_Witness ==
    /\ Len(districts) = MaxDistricts
    /\ \A r \in RequestThreads : MissedAndReturned(r) /\ batch[r].first
    /\ batch[1].success_wrapped # batch[2].success_wrapped
    /\ Len(batch[1].success_wrapped.data.districts) = 1
    /\ lastStored[SameKey].by = 1
    /\ DictGet(prediction_cache.cache,
               PC_generate_key(SameKey[1], SameKey[2], SameKey[3], SameKey[4], SameKey[5]),
               NoneObj) = batch[1].success_wrapped

\* a thread whose get fell between the two statements of the other's set
\* found the entry without its timestamp, deleted it as expired and ran a
\* batch of its own
C38_DeletedThenRerun ==
    /\ Len(districts) > 0
    /\ \A r \in RequestThreads : MissedAndReturned(r)
    /\ \E r \in RequestThreads : ~batch[r].first

-----------------------------------------------------------------------------
(* Properties of a batch response with failed districts.                    *)

\* the number of districts whose task failed in the batch that returns
FailedInBatch == Len(SelectSeq(batch.returned, LAMBDA r : r.status # "success"))

\* the batch over a district list that is not empty returns in this step: its
\* response, with every failure listed, is in the result cache from now on
StoredWithFailures ==
    LET key == batch.key
        stored == DictGet(prediction_cache'.cache,
                          PC_generate_key(key[1], key[2], key[3], key[4], key[5]), NoneObj)
    IN  /\ lastResp'.resp.status = 200
        /\ stored = lastResp'.resp.body
        /\ lastStored'[key].resp = stored
        /\ lastStored'[key].at = TimeTime(now)
        /\ Len(ErrorsOf(lastResp'.resp)) = FailedInBatch
        /\ Len(DistrictsOf(lastResp'.resp)) = Len(districts) - FailedInBatch
        /\ DictGet(prediction_cache'.timestamps,
                   PC_generate_key(key[1], key[2], key[3], key[4], key[5]), 0)
              = TimeTime(now)

\* a predict-all request for key is answered with the response stored, and no
\* district task is dispatched
AnswersStored(stored) ==
    /\ lastResp'.resp = [status |-> 200, body |-> stored]
    /\ lastResp'.dispatched = 0
    /\ batch' = Idle
    /\ cache_manager' = cache_manager
    /\ prediction_cache' = prediction_cache

\* C39: the response of a batch is stored however many districts failed, all
\* of them included; after it, every predict-all, ranking or geojson request
\* for the same key that comes within the TTL (and passes validation, the
\* ranking with a sort field the route accepts) is answered from the stored
\* response, and no failed district is tried again.
C39_FailuresCached ==
    [][/\ (FinishStep /\ Len(districts) > 0) => StoredWithFailures
       /\ \A key \in RequestKeys :
             (/\ validate_prediction_request(now, key[1], key[2], key[3], key[4],
                                             key[5]).is_valid
              /\ CompletedWithinTtl(key)) =>
                 /\ PredictAllBegin(key) => AnswersStored(lastStored[key].resp)
                 /\ DependentStep(key) => AnswersFrom(lastStored[key].resp)]_vars

\* a predict-all request was answered, a clock step after the batch, with the
\* stored response of a batch whose every district failed
C39_Witness ==
    /\ lastResp.route = "predict_all"
    /\ lastResp.dispatched = 0
    /\ lastResp.resp.status = 200
    /\ lastStored[lastResp.key] # NoneObj
    /\ lastResp.resp.body = lastStored[lastResp.key].resp
    /\ TimeTime(now) > lastStored[lastResp.key].at
    /\ TimeTime(now) - lastStored[lastResp.key].at < CACHE_TTL_PREDICTION
    /\ Len(lastResp.resp.body.data.districts) = 0
    /\ Len(lastResp.resp.body.data.errors) = Len(districts)
    /\ Len(districts) > 0

\* a geojson request was answered with no feature from the stored response of
\* a batch whose every district failed
C39_EmptyMap ==
    /\ lastResp.route = "geojson"
    /\ lastResp.resp.status = 200
    /\ lastResp.resp.body.data.features = <<>>
    /\ lastStored[lastResp.key] # NoneObj
    /\ Len(lastStored[lastResp.key].resp.data.errors) = Len(districts)


====
